---- MODULE Spec2Model ----
(***************************************************************************)
(* A model of the log analyzer core: the sliding window                    *)
(* (analyzer/window.go), the pattern tracker (analyzer/patterns.go), the   *)
(* controller (analyzer/analyzer.go) with its ingestion task               *)
(* (processLogs) and snapshot task (updateStats / generateStats), the      *)
(* renderer's two draining tasks (display/display.go) and main's shutdown  *)
(* sequence.                                                               *)
(*                                                                         *)
(* Time is an integer count of clock units, Res units to a second, so that *)
(* time.Now() may fall strictly between two whole seconds.  Timestamps of  *)
(* log entries are whole seconds (the reader parses them with a one-second *)
(* layout).  A float64 that the code obtains by dividing two integers is   *)
(* kept as the exact fraction [num, den]; comparisons cross-multiply.      *)
(***************************************************************************)
EXTENDS Integers, Sequences, FiniteSets, TLC

(* ------------------------------ bounds --------------------------------- *)

\* clock units per second
Res == 2

(* -------------------------- program constants -------------------------- *)

LogChannelSize == 50000
StatsChannelSize == 10
AlertChannelSize == 100

\* NewSlidingWindow(60), NewLogStats().WindowSize
InitialWindowSize == 60
MinWindowSize == 30
MaxWindowSize == 120
WindowStep == 10
SurgeRate == 2500
CalmRate == 600
RateSeconds == 10
BucketRetention == 120
historySize == 5
MaxPatternHistory == 5
PatternPeriod == 10
EmergingSeconds == 15
EventVisible == 60

(* ------------------------------ helpers -------------------------------- *)

min(a, b) == IF a < b THEN a ELSE b

max(a, b) == IF a > b THEN a ELSE b

\* a Go map: a function whose domain is the set of keys present
EmptyMap == [k \in {} |-> 0]

MapGet(m, k, zero) == IF k \in DOMAIN m THEN m[k] ELSE zero

MapPut(m, k, v) == [x \in (DOMAIN m) \cup {k} |-> IF x = k THEN v ELSE m[x]]

\* a float64 quotient of two integers, den > 0
Rat(n, d) == [num |-> n, den |-> d]

RatZero == Rat(0, 1)

RatGT(a, b) == a.num * b.den > b.num * a.den

RatGE(a, b) == a.num * b.den >= b.num * a.den

RatAdd(a, b) == Rat(a.num * b.den + b.num * a.den, a.den * b.den)

Sec(s) == s * Res

\* time.Time.Truncate(time.Second)
Truncate(t) == t - (t % Res)

RECURSIVE SeqSum(_)
SeqSum(s) == IF s = <<>> THEN 0 ELSE Head(s) + SeqSum(Tail(s))

(* --------------------------- sliding window ---------------------------- *)

NewSlidingWindow(durationSec) ==
    [entries       |-> <<>>,
     entriesByType |-> EmptyMap,
     errorsByType  |-> EmptyMap,
     duration      |-> Sec(durationSec),
     totalCount    |-> 0,
     levelCounts   |-> EmptyMap,
     errorCounts   |-> EmptyMap]

IsTypedError(entry) == entry.Level = "ERROR" /\ entry.ErrorType # ""

\* the count of the evicted entry's level left as it was
RemoveFrontKeepLevel(w) ==
    [w EXCEPT !.entries = Tail(w.entries), !.totalCount = w.totalCount - 1]

\* the last element with that timestamp dropped instead of the first
RemoveLastMatch(lst, ts) ==
    LET hits == {i \in 1..Len(lst) : lst[i].Timestamp = ts}
    IN IF hits = {} THEN lst
       ELSE LET last == CHOOSE i \in hits : \A j \in hits : j <= i
            IN SubSeq(lst, 1, last - 1) \o SubSeq(lst, last + 1, Len(lst))

RECURSIVE RemoveFirstMatch(_, _)
\* the inner loops of removeExpiredEntries: drop the first element of a
\* secondary list whose timestamp equals ts
RemoveFirstMatch(lst, ts) ==
    IF lst = <<>> THEN <<>>
    ELSE IF Head(lst).Timestamp = ts THEN Tail(lst)
    ELSE <<Head(lst)>> \o RemoveFirstMatch(Tail(lst), ts)

RemoveFront(w) ==
    LET entry == Head(w.entries)
        w1 == [w EXCEPT !.entries = Tail(w.entries),
                        !.totalCount = w.totalCount - 1,
                        !.levelCounts = MapPut(w.levelCounts, entry.Level,
                                          MapGet(w.levelCounts, entry.Level, 0) - 1)]
        w2 == IF entry.Level \in DOMAIN w1.entriesByType
              THEN [w1 EXCEPT !.entriesByType[entry.Level] =
                                 RemoveFirstMatch(@, entry.Timestamp)]
              ELSE w1
        w3 == IF IsTypedError(entry)
              THEN LET w2c == [w2 EXCEPT !.errorCounts =
                                   MapPut(w2.errorCounts, entry.ErrorType,
                                     MapGet(w2.errorCounts, entry.ErrorType, 0) - 1)]
                   IN IF entry.ErrorType \in DOMAIN w2c.errorsByType
                      THEN [w2c EXCEPT !.errorsByType[entry.ErrorType] =
                                          RemoveFirstMatch(@, entry.Timestamp)]
                      ELSE w2c
              ELSE w2
    IN w3

RECURSIVE removeExpiredEntries(_, _)
removeExpiredEntries(w, cutoff) ==
    IF w.entries # <<>> /\ Head(w.entries).Timestamp < cutoff
    THEN removeExpiredEntries(RemoveFront(w), cutoff)
    ELSE w

PushBack(m, k, entry) == MapPut(m, k, Append(MapGet(m, k, <<>>), entry))

Add(w, entry, t) ==
    LET w0 == removeExpiredEntries(w, t - w.duration)
        w1 == [w0 EXCEPT !.entries = Append(w0.entries, entry),
                         !.totalCount = w0.totalCount + 1,
                         !.levelCounts = MapPut(w0.levelCounts, entry.Level,
                                           MapGet(w0.levelCounts, entry.Level, 0) + 1),
                         !.entriesByType = PushBack(w0.entriesByType, entry.Level, entry)]
    IN IF IsTypedError(entry)
       THEN [w1 EXCEPT !.errorCounts = MapPut(w1.errorCounts, entry.ErrorType,
                                         MapGet(w1.errorCounts, entry.ErrorType, 0) + 1),
                       !.errorsByType = PushBack(w1.errorsByType, entry.ErrorType, entry)]
       ELSE w1

SetDuration(w, durationSec, t) ==
    LET w1 == [w EXCEPT !.duration = Sec(durationSec)]
    IN IF w1.duration < w.duration
       THEN removeExpiredEntries(w1, t - w1.duration)
       ELSE w1

GetStats(w) ==
    [totalCount |-> w.totalCount,
     levelCounts |-> w.levelCounts,
     errorCounts |-> w.errorCounts]

\* the position a walk from the back of a list breaks at, stops being the
\* positions whose element makes it break: the last of them, 0 when the
\* walk reaches the front
BreakAt(stops) ==
    IF stops = {} THEN 0 ELSE CHOOSE i \in stops : \A j \in stops : j <= i

\* GetErrorRate's loop: walk from the back, stop at the first entry before
\* the cutoff
CountBackWhile(lst, cutoff) ==
    Len(lst) - BreakAt({i \in 1..Len(lst) : lst[i].Timestamp < cutoff})

GetErrorRate(w, errorType, seconds, t) ==
    IF errorType \in DOMAIN w.errorsByType
    THEN Rat(CountBackWhile(w.errorsByType[errorType], t - Sec(seconds)), seconds)
    ELSE RatZero

\* an entry stamped exactly at the recent cutoff counted as recent
ChangeCountsInclusive(lst, recentCutoff, prevCutoff) ==
    LET stop == BreakAt({i \in 1..Len(lst) : ~(lst[i].Timestamp > prevCutoff)})
        walked == (stop + 1)..Len(lst)
        recent == {i \in walked : lst[i].Timestamp >= recentCutoff}
    IN <<Cardinality(recent), Cardinality(walked \ recent)>>

\* GetErrorChange's loop: <<recentCount, prevCount>>, counted from the back
\* down to the first entry that is after neither cutoff
ChangeCounts(lst, recentCutoff, prevCutoff) ==
    LET stop == BreakAt({i \in 1..Len(lst) : /\ ~(lst[i].Timestamp > recentCutoff)
                                              /\ ~(lst[i].Timestamp > prevCutoff)})
        walked == (stop + 1)..Len(lst)
        recent == {i \in walked : lst[i].Timestamp > recentCutoff}
    IN <<Cardinality(recent), Cardinality(walked \ recent)>>

GetErrorChange(w, errorType, recentSec, prevSec, t) ==
    IF errorType \in DOMAIN w.errorsByType
    THEN LET recentCutoff == t - Sec(recentSec)
             prevCutoff == recentCutoff - Sec(prevSec)
             c == ChangeCounts(w.errorsByType[errorType], recentCutoff, prevCutoff)
         IN IF c[2] = 0
            THEN (IF c[1] > 0 THEN Rat(100, 1) ELSE RatZero)
            ELSE Rat(100 * (c[1] - c[2]), c[2])
    ELSE RatZero

(* --------------------------- pattern tracker --------------------------- *)

NewPatternTracker ==
    [patterns |-> EmptyMap, patternHistory |-> <<>>]

NewErrorPattern(t) ==
    [Count |-> 0, Weight |-> 0, LastUpdated |-> t,
     RateHistory |-> [i \in 1..historySize |-> RatZero]]

\* the spike rule on a rotated history: both samples positive and the newest
\* at least four times the one before it
Quadrupled(rh) ==
    /\ Len(rh) >= 2
    /\ RatGT(rh[1], RatZero)
    /\ RatGT(rh[2], RatZero)
    /\ RatGE(rh[1], Rat(4 * rh[2].num, rh[2].den))

\* the spike rule seeding the weight additively
RotateHistorySeeded(p, rate, t) ==
    LET rh == <<rate>> \o SubSeq(p.RateHistory, 1, historySize - 1)
        p1 == [p EXCEPT !.RateHistory = rh, !.LastUpdated = t]
    IN IF Quadrupled(rh) THEN [p1 EXCEPT !.Weight = p1.Weight * 3 + 1] ELSE p1

\* lines 66-77: the history shifted by one, the new rate at index 0, the
\* stamp, and the spike rule
RotateHistory(p, rate, t) ==
    LET rh == <<rate>> \o SubSeq(p.RateHistory, 1, historySize - 1)
        p1 == [p EXCEPT !.RateHistory = rh, !.LastUpdated = t]
    IN IF Quadrupled(rh) THEN [p1 EXCEPT !.Weight = p1.Weight * 3] ELSE p1

\* the history rotated already when exactly 10 s have passed
UpdatePatternAtTen(pt, w, entry, t) ==
    IF ~IsTypedError(entry) THEN pt
    ELSE LET p0 == MapGet(pt.patterns, entry.ErrorType, NewErrorPattern(t))
             p1 == [p0 EXCEPT !.Count = p0.Count + 1]
             p2 == IF t - p1.LastUpdated >= Sec(PatternPeriod)
                   THEN RotateHistory(p1, GetErrorRate(w, entry.ErrorType, PatternPeriod, t), t)
                   ELSE p1
         IN [pt EXCEPT !.patterns = MapPut(pt.patterns, entry.ErrorType, p2)]

UpdatePattern(pt, w, entry, t) ==
    IF ~IsTypedError(entry) THEN pt
    ELSE LET p0 == MapGet(pt.patterns, entry.ErrorType, NewErrorPattern(t))
             p1 == [p0 EXCEPT !.Count = p0.Count + 1]
             p2 == IF t - p1.LastUpdated > Sec(PatternPeriod)
                   THEN RotateHistory(p1, GetErrorRate(w, entry.ErrorType, PatternPeriod, t), t)
                   ELSE p1
         IN [pt EXCEPT !.patterns = MapPut(pt.patterns, entry.ErrorType, p2)]

WeightedError(errType, pattern) ==
    [Type |-> errType, Count |-> pattern.Count, Weight |-> pattern.Weight]

\* weightedI of the less function: float64(Count) * (1.0 + Weight)
Weighted(e) == e.Count * (1 + e.Weight)

\* the orders in which range may visit the keys of a map
RangeOrders(keys) ==
    {s \in [1..Cardinality(keys) -> keys] :
        \A i, j \in 1..Cardinality(keys) : i # j => s[i] # s[j]}

\* what sort.Slice may leave: no element before one that is less than it;
\* the order of elements of equal weighted count is not determined
Sorted(result) ==
    \A i, j \in 1..Len(result) :
        i < j => ~(Weighted(result[j]) > Weighted(result[i]))

\* GetTopErrors(n), n >= 0: the set of slices the call may return
GetTopErrors(pt, n) ==
    IF pt.patterns = EmptyMap THEN {<<>>}
    ELSE LET results == {[i \in 1..Len(s) |-> WeightedError(s[i], pt.patterns[s[i]])] :
                            s \in RangeOrders(DOMAIN pt.patterns)}
         IN {SubSeq(result, 1, min(n, Len(result))) :
                result \in {r \in results : Sorted(r)}}

\* the event is stamped by two readings of the clock: startNow for StartTime
\* and, after it, endNow for EndTime
NewEvent(pattern, change, startNow, endNow) ==
    [Pattern |-> pattern, StartTime |-> startNow,
     EndTime |-> endNow + Sec(EventVisible), PeakChange |-> change]

\* the newest event dropped when the history is full
StoreEmergingPatternKeepOldest(pt, pattern, change, startNow, endNow) ==
    LET h == Append(pt.patternHistory, NewEvent(pattern, change, startNow, endNow))
    IN [pt EXCEPT !.patternHistory =
                     IF Len(h) > MaxPatternHistory
                     THEN SubSeq(h, 1, MaxPatternHistory) ELSE h]

\* the event not appended
StoreEmergingPatternDropped(pt, pattern, change, startNow, endNow) == pt

StoreEmergingPattern(pt, pattern, change, startNow, endNow) ==
    LET event == NewEvent(pattern, change, startNow, endNow)
        h == Append(pt.patternHistory, event)
    IN [pt EXCEPT !.patternHistory =
                     IF Len(h) > MaxPatternHistory THEN Tail(h) ELSE h]

GetPatternHistory(pt) == pt.patternHistory

\* a change of exactly 100 percent reported too
IsEmergingFrom100(change) == RatGE(change, Rat(100, 1))

\* the test of GetEmergingPatterns' read loop for one error type
IsEmerging(change) == RatGT(change, Rat(100, 1))

(* ------------------------------ controller ----------------------------- *)

\* the address of a map or slice: the allocation site and the serial number
\* of the call that allocated it
Alloc(site, serial) == <<site, serial>>

\* the serial-th LogStats: refs holds the addresses of its maps and of its
\* history slice, all made by this call
NewLogStats(serial) ==
    [EntriesProcessed |-> 0,
     CurrentRate |-> RatZero,
     PeakRate |-> RatZero,
     WindowSize |-> InitialWindowSize,
     LevelCounts |-> EmptyMap,
     ErrorCounts |-> EmptyMap,
     ErrorRates |-> EmptyMap,
     EmergingPatterns |-> EmptyMap,
     SkippedEntries |-> 0,
     LastUpdated |-> 0,
     EmergingPatternHistory |-> <<>>,
     PreviousWindowSize |-> InitialWindowSize,
     refs |-> [LevelCounts |-> Alloc("NewLogStats.LevelCounts", serial),
               ErrorCounts |-> Alloc("NewLogStats.ErrorCounts", serial),
               ErrorRates |-> Alloc("NewLogStats.ErrorRates", serial),
               EmergingPatterns |-> Alloc("NewLogStats.EmergingPatterns", serial),
               EmergingPatternHistory |->
                   Alloc("NewLogStats.EmergingPatternHistory", serial)]]

updateRateBucket(buckets, timestamp, count, t) ==
    LET all == Append(buckets, [Count |-> count, Timestamp |-> timestamp])
    IN SelectSeq(all, LAMBDA b : b.Timestamp > t - Sec(BucketRetention))

\* the total divided by the length of the period instead of the number of
\* buckets
calculateRatePerSecond(buckets, seconds, t) ==
    LET relevant == SelectSeq(buckets, LAMBDA b : b.Timestamp > t - Sec(seconds))
        totalCount == SeqSum([i \in 1..Len(relevant) |-> relevant[i].Count])
    IN IF Len(relevant) = 0 THEN RatZero ELSE Rat(totalCount, seconds)

calculateRate(buckets, seconds, t) ==
    LET relevant == SelectSeq(buckets, LAMBDA b : b.Timestamp > t - Sec(seconds))
        totalCount == SeqSum([i \in 1..Len(relevant) |-> relevant[i].Count])
    IN IF Len(relevant) = 0 THEN RatZero ELSE Rat(totalCount, Len(relevant))

\* the adaptation without its limits: grows past 120 and shrinks below 30
NewWindowSizeUnbounded(currentRate, windowSize) ==
    IF RatGT(currentRate, Rat(SurgeRate, 1)) THEN windowSize - WindowStep
    ELSE IF RatGT(Rat(CalmRate, 1), currentRate) THEN windowSize + WindowStep
    ELSE windowSize

\* the adaptation as the README words it: shrink above 400 entries a second
NewWindowSizeReadme(currentRate, windowSize) ==
    IF RatGT(currentRate, Rat(400, 1)) /\ windowSize > MinWindowSize
    THEN max(MinWindowSize, windowSize - WindowStep)
    ELSE IF RatGT(Rat(CalmRate, 1), currentRate) /\ windowSize < MaxWindowSize
    THEN min(MaxWindowSize, windowSize + WindowStep)
    ELSE windowSize

\* the adaptation with the calm threshold included: grow at 600 and below
NewWindowSizeCalmInclusive(currentRate, windowSize) ==
    IF RatGT(currentRate, Rat(SurgeRate, 1)) /\ windowSize > MinWindowSize
    THEN max(MinWindowSize, windowSize - WindowStep)
    ELSE IF RatGE(Rat(CalmRate, 1), currentRate) /\ windowSize < MaxWindowSize
    THEN min(MaxWindowSize, windowSize + WindowStep)
    ELSE windowSize

\* the window adaptation of generateStats: the size the tick moves to
NewWindowSize(currentRate, windowSize) ==
    IF RatGT(currentRate, Rat(SurgeRate, 1)) /\ windowSize > MinWindowSize
    THEN max(MinWindowSize, windowSize - WindowStep)
    ELSE IF RatGT(Rat(CalmRate, 1), currentRate) /\ windowSize < MaxWindowSize
    THEN min(MaxWindowSize, windowSize + WindowStep)
    ELSE windowSize

\* whether that tick sends the "Adjusted window" alert
SendsAdjustAlert(currentRate, windowSize) ==
    RatGT(currentRate, Rat(SurgeRate, 1)) /\ windowSize > MinWindowSize

\* a burst only when the count exceeds the whole buffer
BurstThresholdWhole(size) == size

\* int(float64(bufferSize) * 0.8) and int(float64(bufferSize) * 1.5)
BurstThreshold(size) == (size * 8) \div 10

ResizedBuffer(size) == (size * 3) \div 2

IsBurst(count, size) == count > BurstThreshold(size)

RECURSIVE RatSum(_, _)
RatSum(m, keys) ==
    IF keys = {} THEN RatZero
    ELSE LET k == CHOOSE x \in keys : TRUE
         IN RatAdd(m[k], RatSum(m, keys \ {k}))

\* totalErrorRate > 5.0
HighErrorRate(errorRates) == RatGT(RatSum(errorRates, DOMAIN errorRates), Rat(5, 1))

\* a fresh LogStats with the copied fields; PreviousWindowSize is not copied
\* return a.stats: the snapshot is the controller's own record
cloneStatsShared(st, serial) == st

\* the entries are copied into the maps of a new LogStats, the history into
\* a new slice
cloneStats(st, serial) ==
    [NewLogStats(serial) EXCEPT
        !.EntriesProcessed = st.EntriesProcessed,
        !.CurrentRate = st.CurrentRate,
        !.PeakRate = st.PeakRate,
        !.WindowSize = st.WindowSize,
        !.LastUpdated = st.LastUpdated,
        !.SkippedEntries = st.SkippedEntries,
        !.LevelCounts = st.LevelCounts,
        !.ErrorCounts = st.ErrorCounts,
        !.ErrorRates = st.ErrorRates,
        !.EmergingPatterns = st.EmergingPatterns,
        !.EmergingPatternHistory = st.EmergingPatternHistory,
        !.refs.EmergingPatternHistory =
            Alloc("cloneStats.EmergingPatternHistory", serial)]

(* ------------------------------- state --------------------------------- *)

VARIABLES
    now,             \* the wall clock, in clock units
    tickerC,         \* updateStats' ticker channel (capacity 1) holds a tick
    logChan,         \* inbound queue
    statsChan,       \* snapshot queue
    alertChan,       \* alert queue
    stopChan,        \* Analyzer.stopChan is closed
    window,          \* Analyzer.window
    patternTracker,  \* Analyzer.patternTracker
    ptmux,           \* PatternTracker.mux: "free", or "snapR" while the
                     \* snapshot task holds the shared lock across steps
    stats,           \* Analyzer.stats
    rateBuckets,     \* Analyzer.rateBuckets
    mux,             \* Analyzer.mux: "free", "ing" or "snap"
    skippedEntries,
    bufferResized,
    bufferSize,
    ing,             \* processLogs: program counter and locals
    snap,            \* updateStats / generateStats: program counter and locals
    display,         \* Display: stopChan closed, its two tasks' counters
    mainPc,          \* main's shutdown sequence
    reader,          \* Reader: lines read so far, stopChan closed
    drained,         \* history: entries received by processLogs so far
    topErrors        \* the results of the last two calls of GetTopErrors

vars == <<now, tickerC, logChan, statsChan, alertChan, stopChan, window,
          patternTracker, ptmux, stats, rateBuckets, mux, skippedEntries,
          bufferResized, bufferSize, ing, snap, display, mainPc, reader, drained, topErrors>>

core == <<window, patternTracker, ptmux, stats, rateBuckets, mux,
          skippedEntries, bufferResized, bufferSize>>

outside == <<display, mainPc, reader>>

\* no reading of the clock
NoTime == -1

\* GetTopErrors has not been called
NoCall == [n |-> 0, first |-> <<>>, second |-> <<>>, called |-> FALSE]

NoEntry == [id |-> 0, Timestamp |-> 0, Level |-> "", ErrorType |-> "", IsValid |-> FALSE]

\* NewAnalyzer(...) followed by Start() of the reader, analyzer and display
InitWith(initialBufferSize) ==
    /\ now = 0
    /\ tickerC = FALSE
    /\ logChan = <<>>
    /\ statsChan = <<>>
    /\ alertChan = <<>>
    /\ stopChan = FALSE
    /\ window = NewSlidingWindow(InitialWindowSize)
    /\ patternTracker = NewPatternTracker
    /\ ptmux = "free"
    /\ stats = NewLogStats(0)
    /\ rateBuckets = <<>>
    /\ mux = "free"
    /\ skippedEntries = 0
    /\ bufferResized = FALSE
    /\ bufferSize = initialBufferSize
    /\ ing = [pc |-> "select", entry |-> NoEntry, now |-> 0,
              secondBucket |-> 0, secondCount |-> 0, reg |-> 0, newSize |-> 0]
    /\ snap = [pc |-> "select", currentRate |-> RatZero,
               newWindowSize |-> InitialWindowSize,
               todo |-> {}, result |-> EmptyMap, significant |-> <<>>,
               startTime |-> NoTime,
               \* history: every event handed to the event history so far
               stored |-> <<>>,
               clone |-> NewLogStats(0),
               \* history of the current tick: the window size it began with
               \* and the alerts it has sent
               oldWindowSize |-> InitialWindowSize, sent |-> <<>>,
               \* history of all ticks: how many computed their rate, how
               \* many of them saw a rate below 600, how many one above 2500
               ticks |-> 0, calm |-> 0, surge |-> 0]
    /\ display = [stopChan |-> FALSE, collectAlerts |-> "run", updateDisplay |-> "run",
                  alerts |-> <<>>]
    /\ mainPc = "wait"
    /\ reader = [lines |-> 0, bursts |-> 0, stopChan |-> FALSE, pc |-> "run"]
    \* history: the entries drained so far and, in the sliding window's own
    \* specification, the entries handed to Add
    /\ drained = [valid |-> 0, invalid |-> 0, added |-> <<>>]
    /\ topErrors = NoCall

(* ---------------------- the clock and the reader ----------------------- *)

\* time passes; the ticker of updateStats fires on every whole second and
\* drops the tick when the previous one has not been taken
ClockTick(maxTime) ==
    /\ now < maxTime
    /\ now' = now + 1
    /\ tickerC' = IF (now + 1) % Res = 0 THEN TRUE ELSE tickerC
    /\ UNCHANGED <<logChan, statsChan, alertChan, stopChan, core, ing, snap,
                   outside, drained, topErrors>>

\* the clock as seen when the tasks are fast against a second: it advances
\* only while the ingestion task waits for input, the snapshot task waits
\* for its tick or for room in the snapshot queue, and the renderer's tasks,
\* as long as they run, have emptied their queues
ClockTickQuiet(maxTime) ==
    /\ ~tickerC
    /\ logChan = <<>>
    /\ ing.pc \in {"select", "done"}
    /\ snap.pc \in {"select", "send", "done"}
    /\ display.updateDisplay = "run" => statsChan = <<>>
    /\ display.collectAlerts = "run" => alertChan = <<>>
    /\ ClockTick(maxTime)

\* what parseLine can return: an unparsable line, or a level with the
\* error type of its message ("" when the message names none)
Malformed == [Level |-> "", ErrorType |-> "", IsValid |-> FALSE]

Info == [Level |-> "INFO", ErrorType |-> "", IsValid |-> TRUE]

Debug == [Level |-> "DEBUG", ErrorType |-> "", IsValid |-> TRUE]

ErrorX == [Level |-> "ERROR", ErrorType |-> "X", IsValid |-> TRUE]

ErrorY == [Level |-> "ERROR", ErrorType |-> "Y", IsValid |-> TRUE]

ErrorUntyped == [Level |-> "ERROR", ErrorType |-> "", IsValid |-> TRUE]

\* parseLine on line number id of that kind, stamped lag seconds before the
\* time it is read at
parseLine(id, kind, lag) ==
    IF kind.IsValid
    THEN [id |-> id, Timestamp |-> Truncate(now) - Sec(lag), Level |-> kind.Level,
          ErrorType |-> kind.ErrorType, IsValid |-> TRUE]
    ELSE [NoEntry EXCEPT !.id = id]

\* readLogs: one line scanned, parsed and sent
ReaderSend(maxLines, kinds, lags) ==
    /\ reader.pc = "run"
    /\ ~reader.stopChan
    /\ reader.lines < maxLines
    /\ Len(logChan) < LogChannelSize
    /\ \E kind \in kinds, lag \in lags :
          logChan' = Append(logChan, parseLine(reader.lines + 1, kind, lag))
    /\ reader' = [reader EXCEPT !.lines = @ + 1]
    /\ UNCHANGED <<now, tickerC, statsChan, alertChan, stopChan, core, ing, snap,
                   display, mainPc, drained, topErrors>>

\* readLogs: a run of n lines of one kind, all read at the current time and
\* stamped lag seconds before it
ReaderBurst(maxBursts, bursts) ==
    /\ reader.pc = "run"
    /\ ~reader.stopChan
    /\ reader.bursts < maxBursts
    /\ \E b \in bursts :
          /\ Len(logChan) + b.n <= LogChannelSize
          /\ logChan' = logChan \o [i \in 1..b.n |->
                                      parseLine(reader.lines + i, b.kind, b.lag)]
          /\ reader' = [reader EXCEPT !.lines = @ + b.n, !.bursts = @ + 1]
    /\ UNCHANGED <<now, tickerC, statsChan, alertChan, stopChan, core, ing, snap,
                   display, mainPc, drained, topErrors>>

\* a run that arrives while the ingestion task waits for input and the
\* snapshot task is between two passes of generateStats
ReaderBurstQuiet(maxBursts, bursts) ==
    /\ logChan = <<>>
    /\ ing.pc = "select"
    /\ snap.pc \in {"select", "send"}
    /\ ReaderBurst(maxBursts, bursts)

ReaderStop ==
    /\ reader.pc = "run"
    /\ reader.stopChan
    /\ reader' = [reader EXCEPT !.pc = "done"]
    /\ UNCHANGED <<now, tickerC, logChan, statsChan, alertChan, stopChan, core,
                   ing, snap, display, mainPc, drained, topErrors>>

(* ------------------------ ingestion: processLogs ----------------------- *)

buggyConcurrency == TRUE

BurstAlert(t, count, size) ==
    [Timestamp |-> t, kind |-> "burst", count |-> count, size |-> size]

AdjustAlert(t, size) ==
    [Timestamp |-> t, kind |-> "adjusted", count |-> 0, size |-> size]

HighRateAlert(t) ==
    [Timestamp |-> t, kind |-> "high_error_rate", count |-> 0, size |-> 0]

\* the validity test left out: every entry is indexed
AfterCountAll(entry) == "add"

\* where processLogs goes after the per-second bookkeeping
AfterCount(entry) == IF entry.IsValid THEN "add" ELSE "skip"

\* where processLogs goes after counting the entry as processed
AfterProcessed(count, size) == IF IsBurst(count, size) THEN "resize" ELSE "select"

\* select picks case <-a.stopChan
IngStop ==
    /\ ing.pc = "select"
    /\ stopChan
    /\ ing' = [ing EXCEPT !.pc = "done"]
    /\ UNCHANGED <<now, tickerC, logChan, statsChan, alertChan, stopChan, core,
                   snap, outside, drained, topErrors>>

\* select picks case entry := <-a.logChan; now := time.Now(); within the
\* same wall-second the count is advanced at once
IngRecv ==
    /\ ing.pc = "select"
    /\ logChan # <<>>
    /\ LET entry == Head(logChan)
           same == Truncate(now) = ing.secondBucket
       IN /\ ing' = [ing EXCEPT !.entry = entry, !.now = now,
                                !.secondCount = IF same THEN @ + 1 ELSE @,
                                !.pc = IF same THEN AfterCount(entry) ELSE "bucket"]
          /\ drained' = IF entry.IsValid
                        THEN [drained EXCEPT !.valid = @ + 1]
                        ELSE [drained EXCEPT !.invalid = @ + 1]
    /\ logChan' = Tail(logChan)
    /\ UNCHANGED <<now, tickerC, statsChan, alertChan, stopChan, core, snap, outside, topErrors>>

\* a new wall-second: updateRateBucket(secondBucket, secondCount) under a.mux
IngBucket ==
    /\ ing.pc = "bucket"
    /\ mux = "free"
    /\ rateBuckets' = updateRateBucket(rateBuckets, ing.secondBucket, ing.secondCount, now)
    /\ ing' = [ing EXCEPT !.secondBucket = Truncate(ing.now), !.secondCount = 1,
                          !.pc = AfterCount(ing.entry)]
    /\ UNCHANGED <<now, tickerC, logChan, statsChan, alertChan, stopChan, window,
                   patternTracker, ptmux, stats, mux, skippedEntries, bufferResized,
                   bufferSize, snap, outside, drained, topErrors>>

\* !entry.IsValid: skippedEntries++ under a.mux; continue
IngSkip ==
    /\ ing.pc = "skip"
    /\ mux = "free"
    /\ skippedEntries' = skippedEntries + 1
    /\ ing' = [ing EXCEPT !.pc = "select"]
    /\ UNCHANGED <<now, tickerC, logChan, statsChan, alertChan, stopChan, window,
                   patternTracker, ptmux, stats, rateBuckets, mux, bufferResized,
                   bufferSize, snap, outside, drained, topErrors>>

\* a.window.Add(entry)
IngAdd ==
    /\ ing.pc = "add"
    /\ window' = Add(window, ing.entry, now)
    /\ ing' = [ing EXCEPT !.pc = "pattern"]
    /\ UNCHANGED <<now, tickerC, logChan, statsChan, alertChan, stopChan,
                   patternTracker, ptmux, stats, rateBuckets, mux, skippedEntries,
                   bufferResized, bufferSize, snap, outside, drained, topErrors>>

\* a.patternTracker.UpdatePattern(entry): the exclusive lock is taken only
\* for an ERROR entry with an error type
IngPattern ==
    /\ ing.pc = "pattern"
    /\ IsTypedError(ing.entry) => ptmux = "free"
    /\ patternTracker' = UpdatePattern(patternTracker, window, ing.entry, now)
    /\ ing' = [ing EXCEPT !.pc = "count"]
    /\ UNCHANGED <<now, tickerC, logChan, statsChan, alertChan, stopChan, window,
                   ptmux, stats, rateBuckets, mux, skippedEntries, bufferResized,
                   bufferSize, snap, outside, drained, topErrors>>

\* whether the increment of EntriesProcessed is made without a.mux
Unlocked(entry) == entry.Level = "ERROR" /\ buggyConcurrency

\* a.stats.EntriesProcessed++ under a.mux
IngCountLocked ==
    /\ ing.pc = "count"
    /\ ~Unlocked(ing.entry)
    /\ mux = "free"
    /\ stats' = [stats EXCEPT !.EntriesProcessed = @ + 1]
    /\ ing' = [ing EXCEPT !.pc = AfterProcessed(ing.secondCount, bufferSize)]
    /\ UNCHANGED <<now, tickerC, logChan, statsChan, alertChan, stopChan, window,
                   patternTracker, ptmux, rateBuckets, mux, skippedEntries,
                   bufferResized, bufferSize, snap, outside, drained, topErrors>>

\* a.stats.EntriesProcessed++ without the lock: the load
IngCountLoad ==
    /\ ing.pc = "count"
    /\ Unlocked(ing.entry)
    /\ ing' = [ing EXCEPT !.reg = stats.EntriesProcessed, !.pc = "store"]
    /\ UNCHANGED <<now, tickerC, logChan, statsChan, alertChan, stopChan, core,
                   snap, outside, drained, topErrors>>

\* the increment lost: the counter is stored back as loaded
IncrementedLost(reg) == reg

Incremented(reg) == reg + 1

\* a.stats.EntriesProcessed++ without the lock: the store
IngCountStore ==
    /\ ing.pc = "store"
    /\ stats' = [stats EXCEPT !.EntriesProcessed = Incremented(ing.reg)]
    /\ ing' = [ing EXCEPT !.pc = AfterProcessed(ing.secondCount, bufferSize)]
    /\ UNCHANGED <<now, tickerC, logChan, statsChan, alertChan, stopChan, window,
                   patternTracker, ptmux, rateBuckets, mux, skippedEntries,
                   bufferResized, bufferSize, snap, outside, drained, topErrors>>

\* burst: the buffer is resized under a.mux
IngResize ==
    /\ ing.pc = "resize"
    /\ mux = "free"
    /\ bufferSize' = ResizedBuffer(bufferSize)
    /\ bufferResized' = TRUE
    /\ ing' = [ing EXCEPT !.newSize = ResizedBuffer(bufferSize), !.pc = "alert"]
    /\ UNCHANGED <<now, tickerC, logChan, statsChan, alertChan, stopChan, window,
                   patternTracker, ptmux, stats, rateBuckets, mux, skippedEntries,
                   snap, outside, drained, topErrors>>

\* a.alertChan <- models.Alert{...}: a send that waits for room
IngAlert ==
    /\ ing.pc = "alert"
    /\ Len(alertChan) < AlertChannelSize
    /\ alertChan' = Append(alertChan, BurstAlert(ing.now, ing.secondCount, ing.newSize))
    /\ ing' = [ing EXCEPT !.pc = "select"]
    /\ UNCHANGED <<now, tickerC, logChan, statsChan, stopChan, core, snap, outside,
                   drained, topErrors>>

(* ------------- ingestion, one whole loop iteration at a time ----------- *)

\* the controller state one iteration of processLogs reads and writes
IngView ==
    [window |-> window, patternTracker |-> patternTracker,
     EntriesProcessed |-> stats.EntriesProcessed, rateBuckets |-> rateBuckets,
     skippedEntries |-> skippedEntries, bufferResized |-> bufferResized,
     bufferSize |-> bufferSize, secondBucket |-> ing.secondBucket,
     secondCount |-> ing.secondCount, alerts |-> <<>>]

\* lines 103-111: the per-second bookkeeping
countEntry(v, t) ==
    IF Truncate(t) # v.secondBucket
    THEN [v EXCEPT !.rateBuckets = updateRateBucket(v.rateBuckets, v.secondBucket,
                                                    v.secondCount, t),
                   !.secondBucket = Truncate(t),
                   !.secondCount = 1]
    ELSE [v EXCEPT !.secondCount = @ + 1]

\* lines 137-154: the burst check after a valid entry
checkBurst(v, t) ==
    IF IsBurst(v.secondCount, v.bufferSize)
    THEN [v EXCEPT !.bufferSize = ResizedBuffer(v.bufferSize),
                   !.bufferResized = TRUE,
                   !.alerts = Append(@, BurstAlert(t, v.secondCount,
                                                   ResizedBuffer(v.bufferSize)))]
    ELSE v

\* one iteration of the loop of processLogs on entry, run at time t
processEntry(v, entry, t) ==
    LET v1 == countEntry(v, t)
    IN IF ~entry.IsValid
       THEN [v1 EXCEPT !.skippedEntries = @ + 1]
       ELSE LET w == Add(v1.window, entry, t)
                v2 == [v1 EXCEPT !.window = w,
                                 !.patternTracker = UpdatePattern(@, w, entry, t),
                                 !.EntriesProcessed = @ + 1]
            IN checkBurst(v2, t)

RECURSIVE processEntries(_, _, _, _, _)
\* the iterations on entries[lo..hi], one after the other
processEntries(v, entries, lo, hi, t) ==
    IF lo > hi THEN v
    ELSE IF lo = hi THEN processEntry(v, entries[lo], t)
    ELSE LET mid == (lo + hi) \div 2
             first == processEntries(v, entries, lo, mid, t)
         IN \* the first half has run (its per-second count is a number)
            \* before the second half starts
            IF first.secondCount \in Nat
            THEN processEntries(first, entries, mid + 1, hi, t)
            ELSE first

CountValid(entries) == Len(SelectSeq(entries, LAMBDA e : e.IsValid))

IngLeave(v) ==
    /\ Len(alertChan) + Len(v.alerts) <= AlertChannelSize
    /\ alertChan' = alertChan \o v.alerts
    /\ window' = v.window
    /\ patternTracker' = v.patternTracker
    /\ stats' = [stats EXCEPT !.EntriesProcessed = v.EntriesProcessed]
    /\ rateBuckets' = v.rateBuckets
    /\ skippedEntries' = v.skippedEntries
    /\ bufferResized' = v.bufferResized
    /\ bufferSize' = v.bufferSize
    /\ ing' = [ing EXCEPT !.entry = logChan[Len(logChan)], !.now = now,
                          !.secondBucket = v.secondBucket,
                          !.secondCount = v.secondCount]

\* processLogs runs until the inbound queue is empty, with no other task
\* taking a step in between and no send having to wait
IngDrain ==
    /\ ing.pc = "select"
    /\ logChan # <<>>
    /\ mux = "free"
    /\ ptmux = "free"
    /\ IngLeave(processEntries(IngView, logChan, 1, Len(logChan), now))
    /\ drained' = [drained EXCEPT
                      !.valid = @ + CountValid(logChan),
                      !.invalid = @ + Len(logChan) - CountValid(logChan)]
    /\ logChan' = <<>>
    /\ UNCHANGED <<now, tickerC, statsChan, stopChan, ptmux, mux, snap, outside, topErrors>>

(* ---------------- snapshot: updateStats / generateStats ---------------- *)

\* select picks case <-a.stopChan
SnapStop ==
    /\ snap.pc = "select"
    /\ stopChan
    /\ snap' = [snap EXCEPT !.pc = "done"]
    /\ UNCHANGED <<now, tickerC, logChan, statsChan, alertChan, stopChan, core,
                   ing, outside, drained, topErrors>>

\* select picks case <-ticker.C
SnapTick ==
    /\ snap.pc = "select"
    /\ tickerC
    /\ tickerC' = FALSE
    /\ snap' = [snap EXCEPT !.pc = "lock"]
    /\ UNCHANGED <<now, logChan, statsChan, alertChan, stopChan, core, ing,
                   outside, drained, topErrors>>

\* where generateStats goes once the new window size is decided
AfterDecision(currentRate, windowSize) ==
    IF SendsAdjustAlert(currentRate, windowSize) THEN "adjust_alert"
    ELSE IF NewWindowSize(currentRate, windowSize) # windowSize THEN "resize"
    ELSE "getstats"

\* generateStats: a.mux.Lock(); the rate, the peak and the window decision
SnapLock ==
    /\ snap.pc = "lock"
    /\ mux = "free"
    /\ mux' = "snap"
    /\ LET currentRate == calculateRate(rateBuckets, RateSeconds, now)
       IN /\ stats' = [stats EXCEPT
                          !.PeakRate = IF RatGT(currentRate, @) THEN currentRate ELSE @]
          /\ snap' = [snap EXCEPT
                          !.currentRate = currentRate,
                          !.newWindowSize = NewWindowSize(currentRate, stats.WindowSize),
                          !.pc = AfterDecision(currentRate, stats.WindowSize),
                          !.oldWindowSize = stats.WindowSize,
                          !.sent = <<>>,
                          !.ticks = @ + 1,
                          !.calm = IF RatGT(Rat(CalmRate, 1), currentRate)
                                   THEN @ + 1 ELSE @,
                          !.surge = IF RatGT(currentRate, Rat(SurgeRate, 1))
                                    THEN @ + 1 ELSE @]
    /\ UNCHANGED <<now, tickerC, logChan, statsChan, alertChan, stopChan, window,
                   patternTracker, ptmux, rateBuckets, skippedEntries, bufferResized,
                   bufferSize, ing, outside, drained, topErrors>>

\* the "Adjusted window" alert: a send that waits for room, a.mux held
SnapAdjustAlert ==
    /\ snap.pc = "adjust_alert"
    /\ Len(alertChan) < AlertChannelSize
    /\ alertChan' = Append(alertChan, AdjustAlert(now, snap.newWindowSize))
    /\ snap' = [snap EXCEPT !.pc = "resize",
                            !.sent = Append(@, AdjustAlert(now, snap.newWindowSize))]
    /\ UNCHANGED <<now, tickerC, logChan, statsChan, stopChan, core, ing, outside,
                   drained, topErrors>>

\* the window size changed: a.stats.WindowSize and a.window.SetDuration
SnapResize ==
    /\ snap.pc = "resize"
    /\ IF snap.newWindowSize # stats.WindowSize
       THEN /\ stats' = [stats EXCEPT !.WindowSize = snap.newWindowSize]
            /\ window' = SetDuration(window, snap.newWindowSize, now)
       ELSE UNCHANGED <<stats, window>>
    /\ snap' = [snap EXCEPT !.pc = "getstats"]
    /\ UNCHANGED <<now, tickerC, logChan, statsChan, alertChan, stopChan,
                   patternTracker, ptmux, rateBuckets, mux, skippedEntries,
                   bufferResized, bufferSize, ing, outside, drained, topErrors>>

\* a.window.GetStats() and the fields copied into a.stats after it
SnapGetStats ==
    /\ snap.pc = "getstats"
    /\ LET got == GetStats(window)
       IN /\ stats' = [stats EXCEPT !.CurrentRate = snap.currentRate,
                                    !.LevelCounts = got.levelCounts,
                                    !.ErrorCounts = got.errorCounts,
                                    !.LastUpdated = now,
                                    !.SkippedEntries = skippedEntries,
                                    !.ErrorRates = EmptyMap,
                                    \* the maps GetStats and make return
                                    !.refs.LevelCounts =
                                        Alloc("GetStats.levelCounts", snap.ticks),
                                    !.refs.ErrorCounts =
                                        Alloc("GetStats.errorCounts", snap.ticks),
                                    !.refs.ErrorRates =
                                        Alloc("generateStats.ErrorRates", snap.ticks)]
          /\ snap' = [snap EXCEPT !.todo = DOMAIN got.errorCounts,
                                  !.pc = IF DOMAIN got.errorCounts = {}
                                         THEN "emerging" ELSE "rates"]
    /\ UNCHANGED <<now, tickerC, logChan, statsChan, alertChan, stopChan, window,
                   patternTracker, ptmux, rateBuckets, mux, skippedEntries,
                   bufferResized, bufferSize, ing, outside, drained, topErrors>>

\* one turn of the loop over errorCounts: a.window.GetErrorRate
SnapErrorRate ==
    /\ snap.pc = "rates"
    /\ \E errType \in snap.todo :
          /\ stats' = [stats EXCEPT !.ErrorRates =
                          MapPut(@, errType,
                                 GetErrorRate(window, errType, stats.WindowSize, now))]
          /\ snap' = [snap EXCEPT !.todo = @ \ {errType},
                                  !.pc = IF snap.todo = {errType}
                                         THEN "emerging" ELSE "rates"]
    /\ UNCHANGED <<now, tickerC, logChan, statsChan, alertChan, stopChan, window,
                   patternTracker, ptmux, rateBuckets, mux, skippedEntries,
                   bufferResized, bufferSize, ing, outside, drained, topErrors>>

\* the shared lock left as it is
RUnlockSkipped(lock) == lock

\* pt.mux.RLock() and pt.mux.RUnlock() of the snapshot task
RLock(lock) == "snapR"

RUnlock(lock) == "free"

SnapEmerging ==
    /\ snap.pc = "emerging"
    /\ ptmux = "free"
    /\ ptmux' = RLock(ptmux)
    /\ snap' = [snap EXCEPT !.todo = DOMAIN patternTracker.patterns,
                            !.result = EmptyMap,
                            !.significant = <<>>,
                            !.pc = "emerging_read"]
    /\ UNCHANGED <<now, tickerC, logChan, statsChan, alertChan, stopChan, window,
                   patternTracker, stats, rateBuckets, mux, skippedEntries,
                   bufferResized, bufferSize, ing, outside, drained, topErrors>>

\* GetEmergingPatterns: one turn of the read loop, or, the loop over,
\* pt.mux.RUnlock()
SnapEmergingRead ==
    /\ snap.pc = "emerging_read"
    /\ IF snap.todo = {}
       THEN /\ ptmux' = RUnlock(ptmux)
            /\ snap' = [snap EXCEPT !.pc = "emerging_store"]
       ELSE /\ \E errType \in snap.todo :
                 LET change == GetErrorChange(window, errType, EmergingSeconds,
                                              EmergingSeconds, now)
                 IN snap' = [snap EXCEPT
                       !.todo = @ \ {errType},
                       !.result = IF IsEmerging(change)
                                  THEN MapPut(@, errType, change) ELSE @,
                       !.significant = IF IsEmerging(change)
                                       THEN Append(@, <<errType, change>>) ELSE @]
            /\ UNCHANGED ptmux
    /\ UNCHANGED <<now, tickerC, logChan, statsChan, alertChan, stopChan, window,
                   patternTracker, stats, rateBuckets, mux, skippedEntries,
                   bufferResized, bufferSize, ing, outside, drained, topErrors>>

\* GetEmergingPatterns: one step of a StoreEmergingPattern (the reading of
\* the clock for StartTime; then the reading for EndTime and the append under
\* the exclusive lock), or, all stored, pt.mux.RLock() for the return
SnapEmergingStore ==
    /\ snap.pc = "emerging_store"
    /\ ptmux = "free"
    /\ IF snap.significant = <<>>
       THEN /\ ptmux' = RLock(ptmux)
            /\ snap' = [snap EXCEPT !.pc = "emerging_return"]
            /\ UNCHANGED <<patternTracker, stats>>
       ELSE IF snap.startTime = NoTime
       THEN /\ snap' = [snap EXCEPT !.startTime = now]
            /\ UNCHANGED <<patternTracker, stats, ptmux>>
       ELSE /\ patternTracker' = StoreEmergingPattern(patternTracker,
                                    Head(snap.significant)[1],
                                    Head(snap.significant)[2],
                                    snap.startTime, now)
            /\ snap' = [snap EXCEPT
                  !.significant = Tail(@),
                  !.startTime = NoTime,
                  !.stored = Append(@, NewEvent(Head(snap.significant)[1],
                                                Head(snap.significant)[2],
                                                snap.startTime, now))]
            /\ UNCHANGED <<stats, ptmux>>
    /\ UNCHANGED <<now, tickerC, logChan, statsChan, alertChan, stopChan, window,
                   rateBuckets, mux, skippedEntries, bufferResized,
                   bufferSize, ing, outside, drained, topErrors>>

\* GetEmergingPatterns: return result into a.stats.EmergingPatterns, the
\* deferred pt.mux.RUnlock()
SnapEmergingReturn ==
    /\ snap.pc = "emerging_return"
    /\ stats' = [stats EXCEPT
                    !.EmergingPatterns = snap.result,
                    !.refs.EmergingPatterns =
                        Alloc("GetEmergingPatterns.result", snap.ticks)]
    /\ ptmux' = RUnlock(ptmux)
    /\ snap' = [snap EXCEPT !.pc = "history"]
    /\ UNCHANGED <<now, tickerC, logChan, statsChan, alertChan, stopChan, window,
                   patternTracker, rateBuckets, mux, skippedEntries,
                   bufferResized, bufferSize, ing, outside, drained, topErrors>>

\* a.patternTracker.GetPatternHistory() and the test of the total error rate
SnapHistory ==
    /\ snap.pc = "history"
    /\ ptmux = "free"
    /\ stats' = [stats EXCEPT
                    !.EmergingPatternHistory = GetPatternHistory(patternTracker),
                    \* the copy GetPatternHistory makes
                    !.refs.EmergingPatternHistory =
                        Alloc("GetPatternHistory.result", snap.ticks)]
    /\ snap' = [snap EXCEPT !.pc = IF HighErrorRate(stats.ErrorRates)
                                   THEN "high_alert" ELSE "clone"]
    /\ UNCHANGED <<now, tickerC, logChan, statsChan, alertChan, stopChan, window,
                   patternTracker, ptmux, rateBuckets, mux, skippedEntries,
                   bufferResized, bufferSize, ing, outside, drained, topErrors>>

\* the "High error rate" alert: a send that waits for room, a.mux held
SnapHighAlert ==
    /\ snap.pc = "high_alert"
    /\ Len(alertChan) < AlertChannelSize
    /\ alertChan' = Append(alertChan, HighRateAlert(now))
    /\ snap' = [snap EXCEPT !.pc = "clone", !.sent = Append(@, HighRateAlert(now))]
    /\ UNCHANGED <<now, tickerC, logChan, statsChan, stopChan, core, ing, outside,
                   drained, topErrors>>

\* bufferResized reset, return a.cloneStats(), deferred a.mux.Unlock()
SnapClone ==
    /\ snap.pc = "clone"
    /\ bufferResized' = FALSE
    /\ snap' = [snap EXCEPT !.clone = cloneStats(stats, snap.ticks), !.pc = "send"]
    /\ mux' = "free"
    /\ UNCHANGED <<now, tickerC, logChan, statsChan, alertChan, stopChan, window,
                   patternTracker, ptmux, stats, rateBuckets, skippedEntries,
                   bufferSize, ing, outside, drained, topErrors>>

\* a.statsChan <- stats: a send that waits for room
SnapSend ==
    /\ snap.pc = "send"
    /\ Len(statsChan) < StatsChannelSize
    /\ statsChan' = Append(statsChan, snap.clone)
    /\ snap' = [snap EXCEPT !.pc = "select"]
    /\ UNCHANGED <<now, tickerC, logChan, alertChan, stopChan, core, ing, outside,
                   drained, topErrors>>

(* ----------------------- the renderer and main ------------------------- *)

AlertHistory == 50

\* collectAlerts keeps the last 50 alerts
KeepAlerts(alerts) == IF Len(alerts) > AlertHistory THEN Tail(alerts) ELSE alerts

\* collectAlerts: select picks case alert := <-d.alertChan
CollectAlert ==
    /\ display.collectAlerts = "run"
    /\ alertChan # <<>>
    /\ alertChan' = Tail(alertChan)
    /\ display' = [display EXCEPT !.alerts = KeepAlerts(Append(@, Head(alertChan)))]
    /\ UNCHANGED <<now, tickerC, logChan, statsChan, stopChan, core, ing, snap,
                   mainPc, reader, drained, topErrors>>

\* collectAlerts: select picks case <-d.stopChan
CollectStop ==
    /\ display.collectAlerts = "run"
    /\ display.stopChan
    /\ display' = [display EXCEPT !.collectAlerts = "done"]
    /\ UNCHANGED <<now, tickerC, logChan, statsChan, alertChan, stopChan, core,
                   ing, snap, mainPc, reader, drained, topErrors>>

\* updateDisplay: select picks case stats := <-d.statsChan
DisplayStats ==
    /\ display.updateDisplay = "run"
    /\ statsChan # <<>>
    /\ statsChan' = Tail(statsChan)
    /\ UNCHANGED <<now, tickerC, logChan, alertChan, stopChan, core, ing, snap,
                   outside, drained, topErrors>>

\* updateDisplay: select picks case <-d.stopChan
DisplayStop ==
    /\ display.updateDisplay = "run"
    /\ display.stopChan
    /\ display' = [display EXCEPT !.updateDisplay = "done"]
    /\ UNCHANGED <<now, tickerC, logChan, statsChan, alertChan, stopChan, core,
                   ing, snap, mainPc, reader, drained, topErrors>>

\* main: the signal arrives; logDisplay.Stop()
MainStopDisplay ==
    /\ mainPc = "wait"
    /\ display' = [display EXCEPT !.stopChan = TRUE]
    /\ mainPc' = "stopAnalyzer"
    /\ UNCHANGED <<now, tickerC, logChan, statsChan, alertChan, stopChan, core,
                   ing, snap, reader, drained, topErrors>>

\* main: logAnalyzer.Stop()
MainStopAnalyzer ==
    /\ mainPc = "stopAnalyzer"
    /\ stopChan' = TRUE
    /\ mainPc' = "stopReader"
    /\ UNCHANGED <<now, tickerC, logChan, statsChan, alertChan, core, ing, snap,
                   display, reader, drained, topErrors>>

\* main: logReader.Stop()
MainStopReader ==
    /\ mainPc = "stopReader"
    /\ reader' = [reader EXCEPT !.stopChan = TRUE]
    /\ mainPc' = "done"
    /\ UNCHANGED <<now, tickerC, logChan, statsChan, alertChan, stopChan, core,
                   ing, snap, display, drained, topErrors>>

(* --------------------------- specifications ---------------------------- *)

\* Spec: the ingestion task and the snapshot task step by step, a renderer
\* that drains both queues, a small buffer (-buffer=2) so that a burst is
\* within reach.  The two alerts of generateStats need thousands of entries
\* and are exercised in SpecAdapt.
MaxTime == 4
MaxLines == 2
SmallBuffer == 2

Init == InitWith(SmallBuffer)

Next ==
    \/ ClockTick(MaxTime)
    \/ ReaderSend(MaxLines, {Malformed, Info, ErrorX}, {0})
    \/ IngRecv
    \/ IngBucket
    \/ IngSkip
    \/ IngAdd
    \/ IngPattern
    \/ IngCountLocked
    \/ IngCountLoad
    \/ IngCountStore
    \/ IngResize
    \/ IngAlert
    \/ SnapTick
    \/ SnapLock
    \/ SnapResize
    \/ SnapGetStats
    \/ SnapErrorRate
    \/ SnapEmerging
    \/ SnapEmergingRead
    \/ SnapEmergingStore
    \/ SnapEmergingReturn
    \/ SnapHistory
    \/ SnapClone
    \/ SnapSend
    \/ CollectAlert
    \/ DisplayStats

Spec == Init /\ [][Next]_vars

\* SpecHalt: Spec's tasks with main's shutdown sequence, the renderer's two
\* tasks stopping and the reader stopping, over one tick.  The default
\* buffer of 10000 entries puts a burst out of reach.
MaxTimeHalt == 2
MaxLinesHalt == 2
DefaultBuffer == 10000

InitHalt == InitWith(DefaultBuffer)

NextHalt ==
    \/ ClockTick(MaxTimeHalt)
    \/ ReaderSend(MaxLinesHalt, {Malformed, Info}, {0})
    \/ ReaderStop
    \/ IngStop
    \/ IngRecv
    \/ IngBucket
    \/ IngSkip
    \/ IngAdd
    \/ IngPattern
    \/ IngCountLocked
    \/ SnapStop
    \/ SnapTick
    \/ SnapLock
    \/ SnapResize
    \/ SnapGetStats
    \/ SnapEmerging
    \/ SnapEmergingRead
    \/ SnapEmergingStore
    \/ SnapEmergingReturn
    \/ SnapHistory
    \/ SnapClone
    \/ SnapSend
    \/ CollectStop
    \/ DisplayStats
    \/ DisplayStop
    \/ MainStopDisplay
    \/ MainStopAnalyzer
    \/ MainStopReader

SpecHalt == InitHalt /\ [][NextHalt]_vars

\* SpecStop: the shutdown with no input, over enough seconds for the
\* snapshot queue to fill.
MaxSecondsStop == 11

NextStop ==
    \/ ClockTickQuiet(Sec(MaxSecondsStop))
    \/ ReaderStop
    \/ IngStop
    \/ SnapStop
    \/ SnapTick
    \/ SnapLock
    \/ SnapResize
    \/ SnapGetStats
    \/ SnapEmerging
    \/ SnapEmergingRead
    \/ SnapEmergingStore
    \/ SnapEmergingReturn
    \/ SnapHistory
    \/ SnapClone
    \/ SnapSend
    \/ CollectStop
    \/ DisplayStats
    \/ DisplayStop
    \/ MainStopDisplay
    \/ MainStopAnalyzer
    \/ MainStopReader

\* every task that can take a step eventually takes one; a select with
\* several ready cases picks at random, so a case that is ready again and
\* again is eventually picked
FairStop ==
    /\ SF_vars(IngStop)
    /\ WF_vars(SnapTick \/ SnapLock \/ SnapResize \/ SnapGetStats \/ SnapEmerging
               \/ SnapEmergingRead \/ SnapEmergingStore \/ SnapEmergingReturn
               \/ SnapHistory
               \/ SnapClone \/ SnapSend)
    /\ SF_vars(SnapStop)
    /\ SF_vars(CollectStop)
    /\ SF_vars(DisplayStop)
    /\ SF_vars(DisplayStats)
    /\ WF_vars(MainStopAnalyzer \/ MainStopReader)
    /\ WF_vars(ReaderStop)

SpecStop == InitHalt /\ [][NextStop]_vars /\ FairStop

\* SpecBurst: the ingestion task step by step on a run of valid entries
\* within one second, started with -buffer=1, where every entry is a burst;
\* the renderer collects alerts at its own pace.
TinyBuffer == 1
OneBurst == 1
BurstLines == AlertChannelSize + 1

InitBurst == InitWith(TinyBuffer)

NextBurst ==
    \/ ReaderBurst(OneBurst, {[n |-> BurstLines, kind |-> Info, lag |-> 0]})
    \/ IngRecv
    \/ IngAdd
    \/ IngPattern
    \/ IngCountLocked
    \/ IngResize
    \/ IngAlert
    \/ CollectAlert

SpecBurst == InitBurst /\ [][NextBurst]_vars

\* SpecAdapt: the snapshot task step by step over several seconds, with
\* input that arrives in runs of whole loop iterations: single lines, a
\* second's worth at the calm threshold and one above the surge threshold
\* (of unparsable lines, which count towards the rate and stay out of the
\* window).
MaxSecondsAdapt == 7
MaxBursts == 2
SurgeBurst == SurgeRate + 1
SteadyBurst == CalmRate

Bursts ==
    {[n |-> 1, kind |-> Info, lag |-> 0],
     [n |-> SteadyBurst, kind |-> Malformed, lag |-> 0],
     [n |-> SurgeBurst, kind |-> Malformed, lag |-> 0]}

NextAdapt ==
    \/ ClockTickQuiet(Sec(MaxSecondsAdapt))
    \/ ReaderBurstQuiet(MaxBursts, Bursts)
    \/ IngDrain
    \/ SnapTick
    \/ SnapLock
    \/ SnapAdjustAlert
    \/ SnapResize
    \/ SnapGetStats
    \/ SnapEmerging
    \/ SnapEmergingRead
    \/ SnapEmergingStore
    \/ SnapEmergingReturn
    \/ SnapHistory
    \/ SnapClone
    \/ SnapSend
    \/ CollectAlert
    \/ DisplayStats

SpecAdapt == InitHalt /\ [][NextAdapt]_vars

\* SpecErrors: one run of errors of one type, enough of them for a total
\* error rate above 5 per second over the 60-second window.
MaxSecondsErrors == 2
ErrorBurst == 5 * (InitialWindowSize + WindowStep) + 1

NextErrors ==
    \/ ClockTickQuiet(Sec(MaxSecondsErrors))
    \/ ReaderBurst(OneBurst, {[n |-> ErrorBurst, kind |-> ErrorX, lag |-> 0]})
    \/ IngDrain
    \/ SnapTick
    \/ SnapLock
    \/ SnapResize
    \/ SnapGetStats
    \/ SnapErrorRate
    \/ SnapEmerging
    \/ SnapEmergingRead
    \/ SnapEmergingStore
    \/ SnapEmergingReturn
    \/ SnapHistory
    \/ SnapHighAlert
    \/ SnapClone
    \/ SnapSend
    \/ CollectAlert
    \/ DisplayStats

SpecErrors == InitHalt /\ [][NextErrors]_vars

(* ------------- emerging patterns: errors of two periods ---------------- *)

MaxSecondsEmerging == 7
MaxBurstsEmerging == 2
EarlySeconds == 1
\* a line stamped in the 15 seconds before the last 15
PreviousLag == EmergingSeconds + 5

\* runs of errors: one of the previous period, three and two of the recent
\* one, and one of another type
EmergingBursts ==
    {[n |-> 1, kind |-> ErrorX, lag |-> PreviousLag],
     [n |-> 3, kind |-> ErrorX, lag |-> 0],
     [n |-> 2, kind |-> ErrorX, lag |-> 0],
     [n |-> 1, kind |-> ErrorY, lag |-> 0]}

\* the clock advances between the two readings StoreEmergingPattern makes
ClockTickStamping(maxTime) ==
    /\ snap.startTime # NoTime
    /\ logChan = <<>>
    /\ ing.pc = "select"
    /\ ClockTick(maxTime)

\* a file whose runs are all read in the first seconds
ReaderBurstEarly(maxBursts, bursts, until) ==
    /\ now <= until
    /\ ReaderBurstQuiet(maxBursts, bursts)

NextEmerging ==
    \/ ClockTickQuiet(Sec(MaxSecondsEmerging))
    \/ ReaderBurstEarly(MaxBurstsEmerging, EmergingBursts, Sec(EarlySeconds))
    \/ IngDrain
    \/ SnapTick
    \/ SnapLock
    \/ SnapResize
    \/ SnapGetStats
    \/ SnapErrorRate
    \/ SnapEmerging
    \/ SnapEmergingRead
    \/ SnapEmergingStore
    \/ SnapEmergingReturn
    \/ SnapHistory
    \/ SnapClone
    \/ SnapSend
    \/ DisplayStats

SpecEmerging == InitHalt /\ [][NextEmerging]_vars

MaxSecondsStamping == 2

NextStamping ==
    \/ ClockTickQuiet(Sec(MaxSecondsStamping))
    \/ ClockTickStamping(Sec(MaxSecondsStamping))
    \/ ReaderBurstEarly(MaxBurstsEmerging, EmergingBursts, Sec(EarlySeconds))
    \/ IngDrain
    \/ SnapTick
    \/ SnapLock
    \/ SnapResize
    \/ SnapGetStats
    \/ SnapErrorRate
    \/ SnapEmerging
    \/ SnapEmergingRead
    \/ SnapEmergingStore
    \/ SnapEmergingReturn
    \/ SnapHistory
    \/ SnapClone
    \/ SnapSend
    \/ DisplayStats

SpecStamping == InitHalt /\ [][NextStamping]_vars

\* SpecVisible: the runs of SpecEmerging taken off the inbound queue entry by
\* entry, so that the ingestion task adds to the window and updates patterns
\* while the snapshot task is inside generateStats
MaxSecondsVisible == 2
MaxBurstsVisible == 2

VisibleBursts ==
    {[n |-> 1, kind |-> ErrorX, lag |-> PreviousLag],
     [n |-> 3, kind |-> ErrorX, lag |-> 0]}

NextVisible ==
    \/ ClockTickQuiet(Sec(MaxSecondsVisible))
    \/ ReaderBurstEarly(MaxBurstsVisible, VisibleBursts, Sec(EarlySeconds))
    \/ IngRecv
    \/ IngBucket
    \/ IngAdd
    \/ IngPattern
    \/ IngCountLoad
    \/ IngCountStore
    \/ SnapTick
    \/ SnapLock
    \/ SnapResize
    \/ SnapGetStats
    \/ SnapErrorRate
    \/ SnapEmerging
    \/ SnapEmergingRead
    \/ SnapEmergingStore
    \/ SnapEmergingReturn
    \/ SnapHistory
    \/ SnapClone
    \/ SnapSend
    \/ DisplayStats

SpecVisible == InitHalt /\ [][NextVisible]_vars

\* SpecRate: a file of a few lines read in the first two seconds and then
\* silence for two minutes, the snapshot task ticking all the while
MaxSecondsRate == 121
MaxBurstsRate == 3
EarlySecondsRate == 2

RateBursts ==
    {[n |-> 1, kind |-> Malformed, lag |-> 0],
     [n |-> 2, kind |-> Info, lag |-> 0]}

NextRate ==
    \/ ClockTickQuiet(Sec(MaxSecondsRate))
    \/ ReaderBurstEarly(MaxBurstsRate, RateBursts, Sec(EarlySecondsRate))
    \/ IngDrain
    \/ SnapTick
    \/ SnapLock
    \/ SnapResize
    \/ SnapGetStats
    \/ SnapEmerging
    \/ SnapEmergingRead
    \/ SnapEmergingStore
    \/ SnapEmergingReturn
    \/ SnapHistory
    \/ SnapClone
    \/ SnapSend
    \/ DisplayStats

SpecRate == InitHalt /\ [][NextRate]_vars

(* -------------- the sliding window on its own: window.go --------------- *)

\* time passes between two calls on the window
ClockJump(maxTime, jumps) ==
    /\ \E j \in jumps :
          /\ now + j <= maxTime
          /\ now' = now + j
    /\ UNCHANGED <<tickerC, logChan, statsChan, alertChan, stopChan, core, ing,
                   snap, outside, drained, topErrors>>

\* processLogs hands a valid entry to a.window.Add: the line was stamped lag
\* seconds before the call
WindowAdd(maxAdds, kinds, lags) ==
    /\ Len(drained.added) < maxAdds
    /\ \E kind \in kinds, lag \in lags :
          LET entry == parseLine(Len(drained.added) + 1, kind, lag)
          IN /\ entry.IsValid
             /\ window' = Add(window, entry, now)
             /\ drained' = [drained EXCEPT !.added = Append(@, entry)]
    /\ UNCHANGED <<now, tickerC, logChan, statsChan, alertChan, stopChan,
                   patternTracker, ptmux, stats, rateBuckets, mux, skippedEntries,
                   bufferResized, bufferSize, ing, snap, outside, topErrors>>

\* generateStats finds a new window size for the rate it measured and calls
\* a.window.SetDuration
WindowResize(rates) ==
    /\ \E rate \in rates :
          LET newWindowSize == NewWindowSize(rate, stats.WindowSize)
          IN /\ newWindowSize # stats.WindowSize
             /\ stats' = [stats EXCEPT !.WindowSize = newWindowSize]
             /\ window' = SetDuration(window, newWindowSize, now)
    /\ UNCHANGED <<now, tickerC, logChan, statsChan, alertChan, stopChan,
                   patternTracker, ptmux, rateBuckets, mux, skippedEntries,
                   bufferResized, bufferSize, ing, snap, outside, drained, topErrors>>

MaxSecondsWindow == 90
MaxAdds == 3
Jump == 30
LateLag == 35

NextWindow ==
    \/ ClockJump(Sec(MaxSecondsWindow), {Sec(Jump)})
    \/ WindowAdd(MaxAdds, {Info, ErrorX, ErrorY}, {0, LateLag})
    \/ WindowResize({RatZero, Rat(SurgeRate + 1, 1)})

SpecWindow == InitHalt /\ [][NextWindow]_vars

\* the window read for the change of an error type: entries a few seconds
\* apart, fresh or stamped in the previous period
MaxSecondsChange == 30
MaxAddsChange == 3
ChangeJump == 5

NextChange ==
    \/ ClockJump(Sec(MaxSecondsChange), {Sec(ChangeJump)})
    \/ WindowAdd(MaxAddsChange, {Info, ErrorX, ErrorY}, {0, PreviousLag})
    \/ WindowResize({Rat(SurgeRate + 1, 1)})

SpecChange == InitHalt /\ [][NextChange]_vars

(* ------------- the pattern tracker on its own: UpdatePattern ----------- *)

\* processLogs hands a valid entry to a.window.Add and then to
\* a.patternTracker.UpdatePattern
TrackerUpdate(maxUpdates, kinds) ==
    /\ Len(drained.added) < maxUpdates
    /\ \E kind \in kinds :
          LET entry == parseLine(Len(drained.added) + 1, kind, 0)
              w == Add(window, entry, now)
          IN /\ entry.IsValid
             /\ window' = w
             /\ patternTracker' = UpdatePattern(patternTracker, w, entry, now)
             /\ drained' = [drained EXCEPT !.added = Append(@, entry)]
    /\ UNCHANGED <<now, tickerC, logChan, statsChan, alertChan, stopChan,
                   ptmux, stats, rateBuckets, mux, skippedEntries,
                   bufferResized, bufferSize, ing, snap, outside, topErrors>>

\* SpecTracker: entries of one error type, of no type and of another level
\* over 23 seconds in steps of 5 and 6, so that a history is rotated twice
\* with a quiet period and a busy one in between
MaxSecondsTracker == 23
MaxUpdates == 6
ShortJump == 5
LongJump == 6

NextTracker ==
    \/ ClockJump(Sec(MaxSecondsTracker), {Sec(ShortJump), Sec(LongJump)})
    \/ TrackerUpdate(MaxUpdates, {Info, ErrorX, ErrorUntyped})

SpecTracker == InitHalt /\ [][NextTracker]_vars

\* a caller asks for the top n errors twice in a row
TopErrorsCall(maxN) ==
    /\ \E n \in 0..maxN :
          \E first, second \in GetTopErrors(patternTracker, n) :
              topErrors' = [n |-> n, first |-> first, second |-> second,
                            called |-> TRUE]
    /\ UNCHANGED <<now, tickerC, logChan, statsChan, alertChan, stopChan, core,
                   ing, snap, outside, drained>>

\* SpecTop: errors of two types and entries of another level, and the top n
\* asked for in between
MaxUpdatesTop == 3
MaxN == 3

NextTop ==
    \/ TrackerUpdate(MaxUpdatesTop, {Info, ErrorX, ErrorY})
    \/ TopErrorsCall(MaxN)

SpecTop == InitHalt /\ [][NextTop]_vars

(* ------------------------------- claims -------------------------------- *)

\* the snapshots published so far and not yet rendered, and the one the
\* snapshot task is about to send
Published ==
    {statsChan[i] : i \in 1..Len(statsChan)}
    \cup (IF snap.pc = "send" THEN {snap.clone} ELSE {})

C2_WritesUnderMutex ==
    [][mux = "snap" => stats'.EntriesProcessed = stats.EntriesProcessed]_vars

\* C3: a published snapshot's counts and rates come from one state of the
\* window: the number of entries behind error_rates[t] (the rate times the
\* window size) never exceeds error_counts[t].
C3_NoTearing ==
    \A s \in Published :
        \A t \in DOMAIN s.ErrorRates :
            /\ t \in DOMAIN s.ErrorCounts
            /\ s.ErrorRates[t].num <= s.ErrorCounts[t]

\* C4: the snapshot task never waits on the snapshot send: whenever it is at
\* the send it can take its step, also when the queue is full.
C4_SnapshotSendNeverBlocks ==
    snap.pc = "send" => ENABLED SnapSend

\* C5: neither task ever waits on an alert send: whenever a task is at an
\* alert send it can take its step, also when the alert queue is full.
C5_AlertSendNeverBlocks ==
    /\ ing.pc = "alert" => ENABLED IngAlert
    /\ snap.pc = "adjust_alert" => ENABLED SnapAdjustAlert
    /\ snap.pc = "high_alert" => ENABLED SnapHighAlert

\* C6: once the shutdown signal is raised the ingestion task receives no
\* further entry from the inbound queue.
C6_NoEntryAfterStop ==
    [][stopChan => drained' = drained]_vars

\* C7: after Stop is signalled the ingestion task and the snapshot task each
\* eventually return.
C7_TasksReturn ==
    stopChan ~> (ing.pc = "done" /\ snap.pc = "done")

\* the latest tick has applied its decision on the window size
Decided == snap.ticks > 0 /\ snap.pc \notin {"adjust_alert", "resize"}

\* the sizes reported by the "Adjusted window" alerts in a sequence of alerts
AdjustedSizes(alerts) ==
    LET adjusted == SelectSeq(alerts, LAMBDA a : a.kind = "adjusted")
    IN [i \in 1..Len(adjusted) |-> adjusted[i].size]

\* every alert sent so far, rendered or still queued, oldest first
AllAlerts == display.alerts \o alertChan

\* C8: window_size is 60 until the first tick, is one of 30, 40, ..., 120 in
\* every state and in every published snapshot, and differs from the size
\* the latest tick began with by -10, 0 or +10.
C8_WindowSizeSteps ==
    /\ snap.ticks = 0 => stats.WindowSize = 60
    /\ stats.WindowSize \in {30 + 10 * k : k \in 0..9}
    /\ \A s \in Published : s.WindowSize \in {30 + 10 * k : k \in 0..9}
    /\ stats.WindowSize - snap.oldWindowSize \in {-10, 0, 10}

\* the sixth tick in a row that grows the window takes it from 110 to its
\* upper limit, and the snapshot about to be published carries 120
C8_Witness ==
    /\ snap.ticks = 6
    /\ snap.pc = "send"
    /\ stats.WindowSize = 120
    /\ snap.oldWindowSize = 110
    /\ snap.clone.WindowSize = 120

\* C9: a tick shrinks the window iff its rate is above 2500 and the window
\* above 30, then to max(30, w - 10) with exactly one "Adjusted window" alert
\* carrying the new size, and no such alert on any other tick; when every
\* tick so far saw a rate above 2500, the alerts so far report 50, 40, 30 and
\* nothing more, and the window is at 30 from the third tick on.
C9_ShrinkIffSurge ==
    Decided =>
        LET w == snap.oldWindowSize
            shrink == snap.currentRate.num > 2500 * snap.currentRate.den /\ w > 30
        IN /\ stats.WindowSize < w <=> shrink
           /\ shrink => /\ stats.WindowSize = (IF w - 10 > 30 THEN w - 10 ELSE 30)
                         /\ AdjustedSizes(snap.sent) = <<stats.WindowSize>>
           /\ ~shrink => AdjustedSizes(snap.sent) = <<>>
           /\ snap.surge = snap.ticks =>
                 /\ stats.WindowSize =
                       (IF snap.ticks < 3 THEN 60 - 10 * snap.ticks ELSE 30)
                 /\ AdjustedSizes(AllAlerts) =
                       SubSeq(<<50, 40, 30>>, 1,
                              IF snap.ticks < 3 THEN snap.ticks ELSE 3)

\* four ticks in a row saw a rate above 2500: the alerts reported 50, 40, 30
\* and the fourth tick, at 30, sent none
C9_Witness ==
    /\ Decided
    /\ snap.ticks >= 4
    /\ snap.surge = snap.ticks
    /\ snap.oldWindowSize = 30
    /\ stats.WindowSize = 30
    /\ snap.sent = <<>>
    /\ AdjustedSizes(AllAlerts) = <<50, 40, 30>>

\* C10: a tick grows the window iff its rate is below 600 and the window
\* below 120, then to min(120, w + 10) and without an "Adjusted window"
\* alert; when every tick so far saw a rate below 600 the window is at
\* 60 + 10 per tick up to the sixth tick and at 120 from then on, and no
\* "Adjusted window" alert was sent at all.
C10_GrowIffCalm ==
    Decided =>
        LET w == snap.oldWindowSize
            grow == snap.currentRate.num < 600 * snap.currentRate.den /\ w < 120
        IN /\ stats.WindowSize > w <=> grow
           /\ grow => /\ stats.WindowSize = (IF w + 10 < 120 THEN w + 10 ELSE 120)
                       /\ AdjustedSizes(snap.sent) = <<>>
           /\ snap.calm = snap.ticks =>
                 /\ stats.WindowSize =
                       (IF snap.ticks < 6 THEN 60 + 10 * snap.ticks ELSE 120)
                 /\ AdjustedSizes(AllAlerts) = <<>>

\* seven ticks in a row saw a rate below 600: the window reached 120 at the
\* sixth and the seventh left it there
C10_Witness ==
    /\ Decided
    /\ snap.ticks >= 7
    /\ snap.calm = snap.ticks
    /\ snap.oldWindowSize = 120
    /\ stats.WindowSize = 120

\* C11: when the latest tick changed window_size from w to another size, the
\* controller's previous_window_size is w and the snapshot that tick
\* publishes carries previous_window_size = w.
C11_PreviousWindowSize ==
    (snap.pc = "send" /\ snap.clone.WindowSize # snap.oldWindowSize) =>
        /\ stats.PreviousWindowSize = snap.oldWindowSize
        /\ snap.clone.PreviousWindowSize = snap.oldWindowSize

\* C12: once a valid entry has been counted as processed, the burst branch is
\* taken iff the running count of the current wall-second exceeds 0.8 *
\* buffer_size; the branch sets buffer_size to floor(1.5 * buffer_size) and
\* buffer_resized, and then emits one burst alert that reports that count and
\* the new buffer size; no burst alert is emitted anywhere else.
C12_BurstRule ==
    [][/\ (ing.pc \in {"count", "store"} /\ ing'.pc \notin {"count", "store"}) =>
              /\ ing.entry.IsValid
              /\ ing'.pc = "resize" <=> ing.secondCount * 10 > bufferSize * 8
              /\ ing'.pc # "resize" => ing'.pc = "select"
       /\ (ing.pc = "resize" /\ ing'.pc # "resize") =>
              /\ 2 * bufferSize' <= 3 * bufferSize
              /\ 3 * bufferSize < 2 * bufferSize' + 2
              /\ bufferResized'
              /\ ing'.pc = "alert"
       /\ (ing.pc = "alert" /\ ing'.pc # "alert") =>
              /\ Len(alertChan') = Len(alertChan) + 1
              /\ alertChan'[Len(alertChan')].kind = "burst"
              /\ alertChan'[Len(alertChan')].count = ing.secondCount
              /\ alertChan'[Len(alertChan')].size = bufferSize
       /\ (/\ Len(alertChan') > Len(alertChan)
           /\ alertChan'[Len(alertChan')].kind = "burst") => ing.pc = "alert"
      ]_vars

\* a burst alert for 2 entries in a second with the buffer grown from 2 to 3
C12_Witness ==
    /\ bufferSize = 3
    /\ \E i \in 1..Len(alertChan) :
          /\ alertChan[i].kind = "burst"
          /\ alertChan[i].count = 2
          /\ alertChan[i].size = 3

C14_TotalCountIsLive ==
    GetStats(window).totalCount =
        Cardinality({i \in 1..Len(drained.added) :
                        /\ now - window.duration <= drained.added[i].Timestamp
                        /\ drained.added[i].Timestamp <= now})

\* C15: a call of add at time now with duration d leaves in the window
\* exactly the added entries whose timestamp is later than now - d, whatever
\* the order of the timestamps and also when the new entry is itself older.
C15_AddEvictsExactly ==
    [][Len(drained'.added) > Len(drained.added) =>
          window'.entries = SelectSeq(drained'.added,
                               LAMBDA e : e.Timestamp > now - window.duration)]_vars

\* the sum of the counts a map holds
RECURSIVE MapSum(_)
MapSum(m) ==
    IF DOMAIN m = {} THEN 0
    ELSE LET k == CHOOSE x \in DOMAIN m : TRUE
         IN m[k] + MapSum([x \in DOMAIN m \ {k} |-> m[x]])

\* C16: after any sequence of add and set_duration calls totalCount is the
\* length of the primary list and the sum of level_counts, and no level count
\* or error count is negative.
C16_CountsConsistent ==
    /\ window.totalCount = Len(window.entries)
    /\ window.totalCount = MapSum(window.levelCounts)
    /\ \A k \in DOMAIN window.levelCounts : window.levelCounts[k] >= 0
    /\ \A k \in DOMAIN window.errorCounts : window.errorCounts[k] >= 0

\* entries of two levels are held after an eviction has emptied a third count
C16_Witness ==
    /\ Len(window.entries) = 2
    /\ Len(drained.added) = 3
    /\ \E k \in DOMAIN window.errorCounts : window.errorCounts[k] = 0
    /\ \E k \in DOMAIN window.levelCounts : window.levelCounts[k] = 1

\* C17: error_counts[t] is the length of the per-error list of t, and every
\* secondary list (per level, per error type) holds exactly the primary-list
\* entries of that level / error type, in the primary list's order, also when
\* entries share a timestamp.
C17_SecondaryListsMirror ==
    /\ DOMAIN window.errorCounts = DOMAIN window.errorsByType
    /\ \A t \in DOMAIN window.errorsByType :
          /\ window.errorCounts[t] = Len(window.errorsByType[t])
          /\ window.errorsByType[t] =
                SelectSeq(window.entries,
                          LAMBDA e : e.Level = "ERROR" /\ e.ErrorType = t)
    /\ \A l \in DOMAIN window.entriesByType :
          window.entriesByType[l] = SelectSeq(window.entries, LAMBDA e : e.Level = l)
    /\ \A i \in 1..Len(window.entries) :
          /\ window.entries[i].Level \in DOMAIN window.entriesByType
          /\ IsTypedError(window.entries[i]) =>
                window.entries[i].ErrorType \in DOMAIN window.errorsByType

\* an eviction has removed one of three entries that shared a timestamp and
\* a level
C17_Witness ==
    /\ Len(drained.added) = 3
    /\ \A i \in 1..3 : /\ drained.added[i].Timestamp = drained.added[1].Timestamp
                        /\ drained.added[i].Level = "ERROR"
    /\ drained.added[1].ErrorType # drained.added[2].ErrorType
    /\ Len(window.entries) = 2

\* C18: at each tick a known error type t is put into emerging_patterns iff
\* get_error_change(t, 15, 15) > 100, and for every included t one event with
\* pattern = t, peak_change = that change and end_time = start_time + 60 s is
\* appended to the event history in that tick.
C18_EmergingRule ==
    [][/\ (snap.pc = "emerging_read" /\ snap'.todo # snap.todo) =>
              \A t \in snap.todo \ snap'.todo :
                 LET change == GetErrorChange(window, t, 15, 15, now)
                     included == change.num > 100 * change.den
                 IN /\ included <=> (t \in DOMAIN snap'.result
                                       /\ t \notin DOMAIN snap.result)
                    /\ included => /\ snap'.result[t] = change
                                   /\ snap'.significant =
                                         Append(snap.significant, <<t, change>>)
                    /\ ~included => snap'.significant = snap.significant
       /\ (snap.pc = "emerging_return" /\ snap'.pc = "history") =>
              /\ stats'.EmergingPatterns = snap.result
              /\ snap.significant = <<>>
       /\ (snap.significant # <<>> /\ snap'.significant = Tail(snap.significant)) =>
              LET h == patternTracker'.patternHistory
                  event == h[Len(h)]
              IN /\ h # <<>>
                 /\ \/ h = Append(patternTracker.patternHistory, event)
                    \/ h = Tail(Append(patternTracker.patternHistory, event))
                 /\ event.Pattern = Head(snap.significant)[1]
                 /\ event.PeakChange = Head(snap.significant)[2]
                 /\ event.EndTime = event.StartTime + 60 * Res
       /\ patternTracker'.patternHistory # patternTracker.patternHistory =>
              /\ snap.significant # <<>>
              /\ snap'.significant = Tail(snap.significant)
      ]_vars

\* C19: the event history never holds more than 5 events; after N emerging
\* detections it holds the min(N, 5) most recent ones in the order they were
\* appended.
C19_HistoryCap ==
    LET N == Len(snap.stored)
        h == patternTracker.patternHistory
    IN /\ Len(h) <= 5
       /\ Len(h) = (IF N < 5 THEN N ELSE 5)
       /\ h = SubSeq(snap.stored, N - Len(h) + 1, N)

\* a sixth detection has pushed the first event out
C19_Witness ==
    /\ Len(snap.stored) >= 6
    /\ Len(patternTracker.patternHistory) = 5
    /\ patternTracker.patternHistory[1] = snap.stored[Len(snap.stored) - 4]

\* the addresses of the maps and of the history slice of a LogStats
Refs(st) == {st.refs[f] : f \in DOMAIN st.refs}

\* C20: a published snapshot shares no map and no history slice with the
\* controller's record or with another published snapshot (so no write of
\* the core reaches a snapshot, and no write of a consumer reaches the core
\* or a later snapshot), and its own five objects are distinct.
C20_SnapshotsIsolated ==
    LET pubs == statsChan \o (IF snap.pc = "send" THEN <<snap.clone>> ELSE <<>>)
    IN /\ \A i \in 1..Len(pubs) :
             /\ Refs(pubs[i]) \cap Refs(stats) = {}
             /\ Cardinality(Refs(pubs[i])) = 5
       /\ \A i, j \in 1..Len(pubs) :
             i # j => Refs(pubs[i]) \cap Refs(pubs[j]) = {}

\* two snapshots wait in the queue with the same non-empty level counts as
\* the controller's record, each in a map of its own
C20_Witness ==
    /\ Len(statsChan) >= 2
    /\ statsChan[1].LevelCounts # EmptyMap
    /\ statsChan[1].LevelCounts = statsChan[2].LevelCounts
    /\ stats.LevelCounts = statsChan[2].LevelCounts
    /\ statsChan[1].refs.LevelCounts # statsChan[2].refs.LevelCounts

\* the entries handed to Add came in non-decreasing timestamp order
AddedInOrder ==
    \A i, j \in 1..Len(drained.added) :
        i < j => drained.added[i].Timestamp <= drained.added[j].Timestamp

\* the number of added ERROR entries of a type stamped in (after, upTo]
AddedBetween(errorType, after, upTo) ==
    Cardinality({i \in 1..Len(drained.added) :
                    /\ drained.added[i].Level = "ERROR"
                    /\ drained.added[i].ErrorType = errorType
                    /\ after < drained.added[i].Timestamp
                    /\ drained.added[i].Timestamp <= upTo})

\* C21: for entries added in non-decreasing timestamp order,
\* get_error_change(t, r, p) is 100 * (recent - prev) / prev when prev > 0,
\* 100 when prev = 0 < recent and 0 otherwise, recent counting the entries of
\* type t stamped in (now - r, now] and prev those in (now - r - p, now - r];
\* it is 0 for a type the window has never seen.
C21_ErrorChange ==
    AddedInOrder =>
        \A t \in {"X", "Y", "Z"}, r \in {5, 15}, p \in {5, 15} :
            LET recent == AddedBetween(t, now - r * Res, now)
                prev == AddedBetween(t, now - r * Res - p * Res, now - r * Res)
                change == GetErrorChange(window, t, r, p, now)
            IN /\ change.den > 0
               /\ IF prev > 0
                  THEN change.num * prev = 100 * (recent - prev) * change.den
                  ELSE IF recent > 0
                  THEN change.num = 100 * change.den
                  ELSE change.num = 0

\* two recent errors of a type against one of the previous period: 100
C21_Witness ==
    /\ AddedInOrder
    /\ AddedBetween("X", now - 15 * Res, now) = 2
    /\ AddedBetween("X", now - 30 * Res, now - 15 * Res) = 1
    /\ \E i \in 1..Len(drained.added) : drained.added[i].Timestamp = now - 15 * Res
    /\ GetErrorChange(window, "X", 15, 15, now) = Rat(100, 1)

\* C22: a tick whose rate is above 400 entries/sec shrinks a window above 30
\* by 10 seconds, not below 30.
C22_ShrinkAbove400 ==
    (/\ Decided
     /\ snap.currentRate.num > 400 * snap.currentRate.den
     /\ snap.oldWindowSize > 30) =>
        stats.WindowSize =
            (IF snap.oldWindowSize - 10 > 30 THEN snap.oldWindowSize - 10 ELSE 30)

\* C23: no task receives from the inbound queue or sends a snapshot or an
\* alert while it holds the controller mutex or the pattern-tracker lock
\* (the window lock is held only inside the calls on the window, which touch
\* no queue): the snapshot task is the holder when mux = "snap" or
\* ptmux = "snapR"; the ingestion task touches the queues only at its select
\* and at its alert send, outside its locked sections.
C23_NoQueueOpUnderLock ==
    [][/\ (/\ snap' # snap
           /\ \/ Len(alertChan') > Len(alertChan)
              \/ Len(statsChan') > Len(statsChan)) =>
              mux = "free" /\ ptmux = "free"
       /\ (/\ ing' # ing
           /\ \/ Len(alertChan') > Len(alertChan)
              \/ Len(logChan') < Len(logChan)) =>
              ing.pc \in {"select", "alert"}
      ]_vars

\* C24: GetEmergingPatterns holds the shared lock of the pattern tracker only
\* while it reads and while it returns: it has released it whenever it is
\* about to append events, an event is appended with the shared lock free
\* before and after, the lock is taken only from free (at the entry and
\* before the return) and released only from held (after the read loop and at
\* the return), and the operation leaves with no lock held.
C24_SharedThenExclusive ==
    [][/\ snap'.pc = "emerging_store" => ptmux' = "free"
       /\ patternTracker'.patternHistory # patternTracker.patternHistory =>
              ptmux = "free" /\ ptmux' = "free"
       /\ (ptmux = "free" /\ ptmux' = "snapR") =>
              snap.pc \in {"emerging", "emerging_store"}
       /\ (ptmux = "snapR" /\ ptmux' = "free") =>
              snap.pc \in {"emerging_read", "emerging_return"}
       /\ (snap.pc = "emerging_return" /\ snap'.pc # "emerging_return") =>
              ptmux = "snapR" /\ ptmux' = "free"
       /\ snap'.pc \in {"history", "high_alert", "clone", "send", "select"} =>
              ptmux' = "free"
      ]_vars

\* the operation has appended an event and holds the shared lock again for
\* its return
C24_Witness ==
    /\ snap.pc = "emerging_return"
    /\ ptmux = "snapR"
    /\ snap.result # EmptyMap
    /\ snap.stored # <<>>
    /\ snap.stored[Len(snap.stored)].StartTime = now

\* the steps of the ingestion task after its select
IngRun ==
    \/ IngBucket
    \/ IngSkip
    \/ IngAdd
    \/ IngPattern
    \/ IngCountLocked
    \/ IngCountLoad
    \/ IngCountStore
    \/ IngResize
    \/ IngAlert

\* the steps of the snapshot task after its select
SnapRun ==
    \/ SnapLock
    \/ SnapAdjustAlert
    \/ SnapResize
    \/ SnapGetStats
    \/ SnapErrorRate
    \/ SnapEmerging
    \/ SnapEmergingRead
    \/ SnapEmergingStore
    \/ SnapEmergingReturn
    \/ SnapHistory
    \/ SnapHighAlert
    \/ SnapClone
    \/ SnapSend

\* the renderer takes a snapshot or an alert off its queue
Drain == CollectAlert \/ DisplayStats

\* the lock the ingestion task is about to take: a.mux, pt.mux or none
IngWaits ==
    IF \/ ing.pc \in {"bucket", "skip", "resize"}
       \/ ing.pc = "count" /\ ~Unlocked(ing.entry)
    THEN "mux"
    ELSE IF ing.pc = "pattern" /\ IsTypedError(ing.entry) THEN "ptmux"
    ELSE "none"

\* C25: with a renderer that drains its queues the ingestion task and the
\* snapshot task never deadlock.  The snapshot task takes the controller
\* mutex with the tracker lock free and holds the tracker lock only inside
\* the controller mutex (the order controller mutex, then tracker lock);
\* the ingestion task holds no lock while it waits for one.  A snapshot task
\* inside generateStats can take a step or waits at a send the renderer can
\* make room for; an ingestion task inside an iteration can take a step, or
\* waits at its send, or waits for a lock the snapshot task holds.
C25_NoDeadlock ==
    /\ ptmux = "snapR" => mux = "snap"
    /\ snap.pc = "lock" => ptmux = "free"
    /\ snap.pc \notin {"select", "done"} =>
           \/ ENABLED SnapRun
           \/ /\ snap.pc \in {"adjust_alert", "high_alert", "send"}
              /\ ENABLED Drain
    /\ ing.pc \notin {"select", "done"} =>
           \/ ENABLED IngRun
           \/ /\ ing.pc = "alert"
              /\ ENABLED Drain
           \/ /\ IngWaits = "mux"
              /\ mux = "snap"
              /\ (ENABLED SnapRun) \/ (ENABLED Drain)
           \/ /\ IngWaits = "ptmux"
              /\ ptmux = "snapR"
              /\ ENABLED SnapRun

\* the ingestion task waits for the tracker lock while the snapshot task
\* holds it inside the controller mutex
C25_Witness ==
    /\ ing.pc = "pattern"
    /\ IngWaits = "ptmux"
    /\ ptmux = "snapR"
    /\ mux = "snap"
    /\ ~ ENABLED IngRun

\* the pattern of errorType before a step, a fresh one if there is none
PatternBefore(errorType) ==
    MapGet(patternTracker.patterns, errorType, NewErrorPattern(now))

\* the step is an update of errorType's pattern that rotates its history
Rotates(errorType) ==
    /\ errorType \in DOMAIN patternTracker.patterns
    /\ errorType \in DOMAIN patternTracker'.patterns
    /\ patternTracker'.patterns[errorType].Count =
           patternTracker.patterns[errorType].Count + 1
    /\ now - patternTracker.patterns[errorType].LastUpdated > Sec(10)

\* C26: an update that rotates the history and leaves rate_history[0] > 0,
\* rate_history[1] > 0 and rate_history[0] >= 4 * rate_history[1] sets the
\* weight to three times the weight before; every other step leaves the
\* weight as it was; the weight, 0 at creation, is 0 ever after.
C26_WeightRule ==
    [][\A errorType \in DOMAIN patternTracker'.patterns :
          LET before == PatternBefore(errorType)
              after == patternTracker'.patterns[errorType]
              rh == after.RateHistory
              spike == /\ Rotates(errorType)
                       /\ rh[1].num * rh[1].den > 0
                       /\ rh[2].num * rh[2].den > 0
                       /\ rh[1].num * rh[2].den >= 4 * rh[2].num * rh[1].den
          IN /\ after.Weight = IF spike THEN 3 * before.Weight ELSE before.Weight
             /\ after.Weight = 0
      ]_vars

\* a history just rotated with the newest rate four times the one before
C26_Witness ==
    /\ "X" \in DOMAIN patternTracker.patterns
    /\ LET p == patternTracker.patterns["X"]
       IN /\ p.LastUpdated = now
          /\ p.RateHistory[2].num > 0
          /\ p.RateHistory[1].num * p.RateHistory[2].den
                 >= 4 * p.RateHistory[2].num * p.RateHistory[1].den
          /\ p.Weight = 0

\* the entry a step hands to UpdatePattern, NoEntry if it hands none
Updated ==
    IF drained'.added # drained.added
    THEN drained'.added[Len(drained'.added)]
    ELSE NoEntry

\* C27: every pattern has a rate history of exactly 5 samples, all zero at
\* creation; an update of an ERROR entry with an error type adds 1 to the
\* count of that type's pattern and, if more than 10 s have passed since
\* last_updated, shifts the samples by one towards the old end, drops the
\* oldest, stores get_error_rate(error_type, 10) as the newest and stamps
\* last_updated with the time of the update; otherwise history and stamp stay
\* as they are, and any other entry changes no pattern at all.
C27_HistoryAndCount ==
    [][\A errorType \in DOMAIN patternTracker'.patterns :
          LET created == errorType \notin DOMAIN patternTracker.patterns
              before == PatternBefore(errorType)
              after == patternTracker'.patterns[errorType]
              rate == GetErrorRate(window', errorType, 10, now)
          IN /\ Len(after.RateHistory) = 5
             /\ created => /\ Updated.ErrorType = errorType
                           /\ \A i \in 1..5 : after.RateHistory[i].num = 0
             /\ IF /\ Updated.Level = "ERROR"
                   /\ Updated.ErrorType = errorType
                   /\ errorType # ""
                THEN /\ after.Count = before.Count + 1
                     /\ IF now - before.LastUpdated > Sec(10)
                        THEN /\ after.RateHistory[1] = rate
                             /\ \A i \in 2..5 :
                                   after.RateHistory[i] = before.RateHistory[i - 1]
                             /\ after.LastUpdated = now
                        ELSE /\ after.RateHistory = before.RateHistory
                             /\ after.LastUpdated = before.LastUpdated
                ELSE /\ ~created
                     /\ after = before
      ]_vars

\* a pattern updated three times, 11 s apart, so that its history was rotated
\* twice, with entries of no type and of another level in between
C27_Witness ==
    /\ "X" \in DOMAIN patternTracker.patterns
    /\ LET p == patternTracker.patterns["X"]
       IN /\ p.Count = 3
          /\ p.LastUpdated = now
          /\ p.RateHistory[1].num > 0
          /\ p.RateHistory[2].num > 0
          /\ p.RateHistory[3].num = 0
    /\ \E i \in 1..Len(drained.added) : drained.added[i].Level = "INFO"
    /\ \E i \in 1..Len(drained.added) :
          /\ drained.added[i].Level = "ERROR"
          /\ drained.added[i].ErrorType = ""

\* the position in the record of updates at which errorType was first seen
FirstInserted(errorType) ==
    CHOOSE i \in 1..Len(drained.added) :
        /\ drained.added[i].Level = "ERROR"
        /\ drained.added[i].ErrorType = errorType
        /\ \A j \in 1..(i - 1) :
              ~(drained.added[j].Level = "ERROR" /\
                drained.added[j].ErrorType = errorType)

\* C28: top_n(n) returns min(n, number of known patterns) entries, one per
\* pattern with its count and weight, in descending order of
\* count * (1 + weight), entries of equal score in the order in which their
\* patterns were first inserted, and a second call on the same tracker
\* returns the same sequence.
C28_TopErrors ==
    [][topErrors' # topErrors =>
          LET result == topErrors'.first
              known == DOMAIN patternTracker.patterns
          IN /\ Len(result) = min(topErrors'.n, Cardinality(known))
             /\ \A i \in 1..Len(result) :
                   /\ result[i].Type \in known
                   /\ result[i] = WeightedError(result[i].Type,
                                      patternTracker.patterns[result[i].Type])
             /\ \A i, j \in 1..Len(result) :
                   i < j =>
                      \/ result[i].Count * (1 + result[i].Weight) >
                             result[j].Count * (1 + result[j].Weight)
                      \/ /\ result[i].Count * (1 + result[i].Weight) =
                                result[j].Count * (1 + result[j].Weight)
                         /\ FirstInserted(result[i].Type) <
                                FirstInserted(result[j].Type)
             /\ topErrors'.second = topErrors'.first
      ]_vars

\* the committed buckets calculate_rate(seconds) is about
Relevant(seconds) ==
    {i \in 1..Len(rateBuckets) : rateBuckets[i].Timestamp > now - Sec(seconds)}

\* C29: the rate generateStats gets from calculateRate(10) is the sum of the
\* counts of the committed buckets stamped after now - 10 s divided by their
\* number k, and 0 when there is none; the committed buckets are stamped in
\* increasing order and before the second in progress, whose count is in no
\* bucket; and as long as no bucket has been evicted, the counts of the
\* committed buckets and the count in progress add up to the number of
\* entries drained, valid or not.
C29_Rate ==
    [][/\ (snap.pc = "lock" /\ snap'.pc # "lock") =>
              LET k == Cardinality(Relevant(10))
                  sum == SeqSum([i \in 1..Len(rateBuckets) |->
                                   IF i \in Relevant(10)
                                   THEN rateBuckets[i].Count ELSE 0])
                  rate == snap'.currentRate
              IN IF k = 0 THEN rate.num = 0
                 ELSE rate.num * k = sum * rate.den
       /\ \A i \in 1..Len(rateBuckets') :
              /\ rateBuckets'[i].Timestamp < ing'.secondBucket
              /\ i > 1 => rateBuckets'[i - 1].Timestamp < rateBuckets'[i].Timestamp
       /\ ing'.pc = "select" =>
              SeqSum([i \in 1..Len(rateBuckets') |-> rateBuckets'[i].Count])
                  + ing'.secondCount = drained'.valid + drained'.invalid
      ]_vars

\* generateStats has just measured a rate from a list with a bucket inside
\* the last 10 s and one outside, while the second in progress has entries
C29_Witness ==
    /\ mux = "snap"
    /\ snap.pc \in {"resize", "getstats"}
    /\ Relevant(10) # {}
    /\ Relevant(10) # 1..Len(rateBuckets)
    /\ snap.currentRate.num > snap.currentRate.den
    /\ ing.secondCount > 0
    /\ ing.secondBucket > rateBuckets[Len(rateBuckets)].Timestamp

\* C30: whenever generateStats has calculateRate read the bucket list, every
\* bucket in the list is stamped after now - 120 s, however long ago the
\* last entry arrived.
C30_EvictedBeforeRead ==
    [][(snap.pc = "lock" /\ snap'.pc # "lock") =>
          \A i \in 1..Len(rateBuckets) :
              rateBuckets[i].Timestamp > now - Sec(120)
      ]_vars

\* every emerging pattern of a snapshot has an event in its history with the
\* same change
EventsVisible(st) ==
    \A t \in DOMAIN st.EmergingPatterns :
        \E i \in 1..Len(st.EmergingPatternHistory) :
            /\ st.EmergingPatternHistory[i].Pattern = t
            /\ st.EmergingPatternHistory[i].PeakChange = st.EmergingPatterns[t]

\* C31: the events a tick's GetEmergingPatterns appends are in the history
\* the same tick reads: with at most 5 types emerging, after the history read
\* and in the snapshot handed to the queue every emerging pattern has an event
\* with pattern = t and peak_change = emerging_patterns[t]; and the history
\* is changed by the snapshot task's own append only, so that what the tick
\* has appended is still the tail of the history when the tick reads it.
C31_VisibleInSameTick ==
    [][/\ (snap.pc = "history" /\ snap'.pc # "history") =>
              /\ Cardinality(DOMAIN stats'.EmergingPatterns) <= 5
              /\ EventsVisible(stats')
       /\ (snap.pc = "send" /\ snap'.pc # "send") =>
              EventsVisible(statsChan'[Len(statsChan')])
       /\ patternTracker'.patternHistory # patternTracker.patternHistory =>
              /\ snap.pc = "emerging_store"
              /\ snap'.stored = Append(snap.stored,
                     patternTracker'.patternHistory[Len(patternTracker'.patternHistory)])
              /\ ing' = ing
      ]_vars

\* the tick has appended an event and is about to read the history while the
\* ingestion task is about to update the pattern of the same type
C31_Witness ==
    /\ snap.pc = "history"
    /\ snap.result # EmptyMap
    /\ \E i \in 1..Len(patternTracker.patternHistory) :
          /\ patternTracker.patternHistory[i].Pattern \in DOMAIN snap.result
          /\ patternTracker.patternHistory[i].StartTime = now
    /\ ing.pc = "pattern"
    /\ IsTypedError(ing.entry)
    /\ ing.entry.ErrorType \in DOMAIN snap.result

\* the window holds no error of errorType stamped in (now - 30 s, now - 15 s]
NoPrior(errorType) ==
    \/ errorType \notin DOMAIN window.errorsByType
    \/ \A i \in 1..Len(window.errorsByType[errorType]) :
          LET stamp == window.errorsByType[errorType][i].Timestamp
          IN ~(stamp > now - Sec(30) /\ stamp <= now - Sec(15))

\* the errors of errorType in the window stamped in the last 15 s
RecentErrors(errorType) ==
    IF errorType \in DOMAIN window.errorsByType
    THEN Cardinality({i \in 1..Len(window.errorsByType[errorType]) :
             window.errorsByType[errorType][i].Timestamp > now - Sec(15)})
    ELSE 0

\* the error of errorType added last is stamped in the last 15 s
NewestRecent(errorType) ==
    /\ errorType \in DOMAIN window.errorsByType
    /\ LET lst == window.errorsByType[errorType]
       IN lst # <<>> /\ lst[Len(lst)].Timestamp > now - Sec(15)

\* C32: for an error type with no entry in the prior interval
\* (now - 30 s, now - 15 s] the change is never more than 100: it is exactly
\* 100 when the entry added last is of the last 15 s, however many there
\* are, and 0 when there is no entry of the last 15 s; the read loop of
\* GetEmergingPatterns puts the type neither into its result nor into the
\* list of patterns to store, so it is not reported and gets no event.
C32_NoPriorNotEmerging ==
    [][\A errorType \in {"X", "Y"} :
          NoPrior(errorType) =>
             LET change == GetErrorChange(window, errorType, 15, 15, now)
             IN /\ change.num \in {0, 100 * change.den}
                /\ NewestRecent(errorType) => change.num = 100 * change.den
                /\ RecentErrors(errorType) = 0 => change.num = 0
                /\ snap.pc = "emerging_read" =>
                      /\ errorType \in DOMAIN snap'.result =>
                             errorType \in DOMAIN snap.result
                      /\ \A i \in 1..Len(snap'.significant) :
                             snap'.significant[i][1] = errorType =>
                                 i <= Len(snap.significant)
      ]_vars

\* the read loop has passed a type with five errors in the last 15 s and
\* none before, and has not reported it
C32_Witness ==
    /\ snap.pc = "emerging_read"
    /\ "X" \in DOMAIN patternTracker.patterns
    /\ "X" \notin snap.todo
    /\ NoPrior("X")
    /\ RecentErrors("X") >= 5
    /\ NewestRecent("X")
    /\ "X" \notin DOMAIN snap.result
    /\ snap.significant = <<>>

====
